---- MODULE Spec2Model ----
(***************************************************************************)
(* blocks_iterator: the streaming pipeline                                 *)
(*   ReadDetect -> Reorder -> ComputeTxids -> Fee -> consumer              *)
(* modelled as one thread per stage coupled by std::sync::mpsc             *)
(* sync_channel queues.  Block hashes are the integers 1..NumBlocks, the   *)
(* genesis block is hash 1 and the all-zero hash (the previous-block hash  *)
(* of the genesis header) is 0.                                            *)
(***************************************************************************)
EXTENDS Integers, Sequences, FiniteSets, TLC

\* ---------------------------------------------------------------- bounds
NumBlocks == 4          \* distinct blocks that may be present on disk
MaxReorg == 3           \* largest max_reorg explored
MaxStop == 2            \* largest stop_at_height explored
MaxStart == 2           \* largest start_at_height explored
MaxChan == 1            \* largest channels_size explored
MaxFileLen == 2         \* largest number of blocks per blk*.dat file

\* ------------------------------------------------------ program constants
Genesis == 1
ZeroHash == 0
max_block_to_reorder == 10000
\* sync_channel(0) between ReadDetect and Reorder
ReadDetectChannelSize == 0

Hashes == 1..NumBlocks
NoHash == -1            \* Option<BlockHash>::None
PanicHash == -2         \* the evaluation panicked (index out of bounds)

None == <<>>            \* Option::None as a channel message
Some(x) == <<x>>        \* Option::Some(x)

VARIABLES
    cfg,          \* Config: max_reorg, stop_at_height, start_at_height, skip_prevout, channels_size
    prevOf,       \* block content on disk: header.prev_blockhash of every block
    files,        \* the sorted blk*.dat files, each the sequence of block hashes detect() finds
    first12,      \* block content on disk: the first 12 bytes of every block's hash
    dag_scale,    \* the number of blocks of the program one block of the model stands for in the Reorder map
    rd_pc, rd_idx, seen, rd_batch,                     \* ReadDetect thread
    chan1,                                             \* ReadDetect -> Reorder
    early_stop,                                        \* Arc<AtomicBool>
    ro_pc, blocks, follows, next, height, ro_batch, ro_pending,   \* Reorder thread
    chan2,                                             \* Reorder -> ComputeTxids
    tx_pc, tx_pending,                                 \* ComputeTxids thread
    chan3,                                             \* ComputeTxids -> Fee
    fee_pc, fee_pending, utxo,                         \* Fee thread, utxo = heights handed to add_outputs_get_inputs
    chanOut,                                           \* last stage -> consumer
    it_pc, delivered, eos,                             \* BlockExtraIterator (consumer)
    released,                                          \* history: blocks sent by Reorder, in order
    rd_sent,                                           \* history: messages sent by ReadDetect, in order
    pl_pc, pl_unwinding,                               \* the thread spawned by iterate(): its teardown
    aborted,                                           \* the process aborted (panic while panicking)
    chain,        \* the blocks with their transactions, by height, as Fee hands them to the utxo
    mem,          \* MemUtxo of a run without utxo_db and utxo_redb
    db,           \* the rocksdb store at utxo_db and the DbUtxo opened on it
    redb,         \* the redb store at utxo_redb and the RedbUtxo opened on it
    manager,      \* the last Config::utxo_manager call: whether utxo_db and utxo_redb are Some, and the result
    codec,        \* a BlockExtra, its consensus encoding and what is decoded from it
    reward,       \* a BlockExtra height and the result of base_reward
    scan,         \* detect() over the bytes of a block file
    dag           \* an OutOfOrderBlocks and the blocks added to it and removed from it

vars == <<codec, reward, scan, dag, chain, mem, db, redb, manager, cfg, prevOf, files, first12, dag_scale, rd_pc, rd_idx, seen, rd_batch, rd_sent, chan1, early_stop,
          ro_pc, blocks, follows, next, height, ro_batch, ro_pending, chan2,
          tx_pc, tx_pending, chan3, fee_pc, fee_pending, utxo, chanOut,
          it_pc, delivered, eos, released, pl_pc, pl_unwinding, aborted>>

\* ------------------------------------------------------------- utilities
MapRemove(m, k) == [x \in DOMAIN m \ {k} |-> m[x]]
MapInsert(m, k, v) == [x \in DOMAIN m \cup {k} |-> IF x = k THEN v ELSE m[x]]
EmptyMap == [x \in {} |-> 0]

\* a persistent store that does not exist yet: utxo = the UTXO key space
\* or table, prevouts = the per-height sidecar, height = the recorded
\* height (-1: none); and the handle opened on it: updated_up_to_height as
\* read at open, inserted_outputs = the counter stat() reports, ret = the
\* vectors returned since, by height;
\* computed = history: the vector computed for a height when it was added
NewStore ==
    [open |-> FALSE, runs |-> 0, panic |-> FALSE, utxo |-> EmptyMap,
     prevouts |-> EmptyMap, height |-> -1, updated_up_to_height |-> -1,
     inserted_outputs |-> 0, ret |-> <<>>, computed |-> EmptyMap]

\* ------------------------------------------------------------ ReadDetect
\* Seen::insert keys the set by the first 12 bytes of the hash
SeenKey(hash) == first12[hash]

\* mutant of SeenInsert: the result of HashSet::insert is ignored
SeenInsert_always_fresh(s, hash) ==
    [fresh |-> TRUE, set |-> s \cup {SeenKey(hash)}]

\* Seen::insert: HashSet::insert returns whether the key was new
SeenInsert(s, hash) ==
    [fresh |-> SeenKey(hash) \notin s, set |-> s \cup {SeenKey(hash)}]

RECURSIVE FilterSeen(_, _)
\* detected_blocks.into_iter().filter(|e| seen.insert(&e.hash)): result is
\* <<the blocks kept, the set afterwards>>
FilterSeen(detected, s) ==
    IF detected = <<>> THEN <<(<<>>), s>>
    ELSE LET h == Head(detected)
         IN  CHOOSE out \in
               { <<(IF ins.fresh THEN <<h>> ELSE <<>>) \o rest[1], rest[2]>> :
                 ins \in {SeenInsert(s, h)},
                 rest \in {FilterSeen(Tail(detected), SeenInsert(s, h).set)} } : TRUE

\* DetectedBlock::into_fs_block
into_fs_block(hash) == [hash |-> hash, prev |-> prevOf[hash], next |-> <<>>]

\* --------------------------------------------------------------- Reorder
\* mutant of add: the children that arrived before the block are not moved
\* from follows into its next list
add_forgets_waiting_children(b, f, raw_block) ==
    LET prev_hash == raw_block.prev
        f1 == IF prev_hash \in DOMAIN f
              THEN [f EXCEPT ![prev_hash] = Append(@, raw_block.hash)]
              ELSE MapInsert(f, prev_hash, <<raw_block.hash>>)
        f2 == MapRemove(f1, raw_block.hash)
        b1 == IF prev_hash \in DOMAIN b
              THEN [b EXCEPT ![prev_hash].next = Append(@, raw_block.hash)]
              ELSE b
    IN  [blocks |-> MapInsert(b1, raw_block.hash, raw_block), follows |-> f2]

\* mutant of add: the hash is not pushed on the next list of a parent that
\* is already in the map
add_without_parent_link(b, f, raw_block) ==
    LET prev_hash == raw_block.prev
        f1 == IF prev_hash \in DOMAIN f
              THEN [f EXCEPT ![prev_hash] = Append(@, raw_block.hash)]
              ELSE MapInsert(f, prev_hash, <<raw_block.hash>>)
        rb == IF raw_block.hash \in DOMAIN f1
              THEN [raw_block EXCEPT !.next = @ \o f1[raw_block.hash]]
              ELSE raw_block
        f2 == MapRemove(f1, raw_block.hash)
    IN  [blocks |-> MapInsert(b, rb.hash, rb), follows |-> f2]

\* mutant of add: the parent is given every hash recorded for it in follows
add_links_all_recorded(b, f, raw_block) ==
    LET prev_hash == raw_block.prev
        f1 == IF prev_hash \in DOMAIN f
              THEN [f EXCEPT ![prev_hash] = Append(@, raw_block.hash)]
              ELSE MapInsert(f, prev_hash, <<raw_block.hash>>)
        rb == IF raw_block.hash \in DOMAIN f1
              THEN [raw_block EXCEPT !.next = @ \o f1[raw_block.hash]]
              ELSE raw_block
        f2 == MapRemove(f1, raw_block.hash)
        b1 == IF prev_hash \in DOMAIN b
              THEN [b EXCEPT ![prev_hash].next = @ \o f1[prev_hash]]
              ELSE b
    IN  [blocks |-> MapInsert(b1, rb.hash, rb), follows |-> f2]

\* OutOfOrderBlocks::add on the pair (blocks, follows)
add(b, f, raw_block) ==
    LET prev_hash == raw_block.prev
        f1 == IF prev_hash \in DOMAIN f
              THEN [f EXCEPT ![prev_hash] = Append(@, raw_block.hash)]
              ELSE MapInsert(f, prev_hash, <<raw_block.hash>>)
        rb == IF raw_block.hash \in DOMAIN f1
              THEN [raw_block EXCEPT !.next = @ \o f1[raw_block.hash]]
              ELSE raw_block
        f2 == MapRemove(f1, raw_block.hash)
        b1 == IF prev_hash \in DOMAIN b
              THEN [b EXCEPT ![prev_hash].next = Append(@, raw_block.hash)]
              ELSE b
    IN  [blocks |-> MapInsert(b1, rb.hash, rb), follows |-> f2]

RECURSIVE exist_and_has_followers(_, _, _, _)
RECURSIVE FirstFollower(_, _, _, _, _)
RECURSIVE FirstFollower_from_last(_, _, _, _, _)
\* mutant of FirstFollower: block.next is walked from its last entry
FirstFollower_from_last(b, max_reorg, nexts, i, path) ==
    IF i > Len(nexts) THEN NoHash
    ELSE CHOOSE out \in
             { IF r /= NoHash THEN r
               ELSE FirstFollower_from_last(b, max_reorg, nexts, i + 1, path) :
               r \in {exist_and_has_followers(b, max_reorg, nexts[Len(nexts) + 1 - i],
                                              Append(path, nexts[Len(nexts) + 1 - i]))} } : TRUE

\* the for loop of exist_and_has_followers over block.next, from index i
\* (here and below `x \in {e}` names the value of e, computed once)
FirstFollower(b, max_reorg, nexts, i, path) ==
    IF i > Len(nexts) THEN NoHash
    ELSE CHOOSE out \in
             { IF r /= NoHash THEN r
               ELSE FirstFollower(b, max_reorg, nexts, i + 1, path) :
               r \in {exist_and_has_followers(b, max_reorg, nexts[i],
                                              Append(path, nexts[i]))} } : TRUE

exist_and_has_followers(b, max_reorg, hash, path) ==
    IF Len(path) = max_reorg
    THEN (IF path = <<>> THEN PanicHash ELSE path[1])
    ELSE IF hash \in DOMAIN b
         THEN FirstFollower(b, max_reorg, b[hash].next, 1, path)
         ELSE NoHash

\* mutant of remove: value.next is not replaced by the chosen follower
remove_keeps_next(b, max_reorg, hash) ==
    CHOOSE out \in
      { IF nx = PanicHash \/ (nx /= NoHash /\ hash \notin DOMAIN b)
        THEN [found |-> FALSE, panic |-> TRUE, blocks |-> b, value |-> <<>>]
        ELSE IF nx /= NoHash
        THEN [found |-> TRUE, panic |-> FALSE, blocks |-> MapRemove(b, hash),
              value |-> <<b[hash]>>]
        ELSE [found |-> FALSE, panic |-> FALSE, blocks |-> b, value |-> <<>>] :
        nx \in {exist_and_has_followers(b, max_reorg, hash, <<>>)} } : TRUE

\* mutant of remove: any follower is enough, the first one is taken
remove_any_follower(b, max_reorg, hash) ==
    IF hash \in DOMAIN b /\ b[hash].next /= <<>>
    THEN [found |-> TRUE, panic |-> FALSE, blocks |-> MapRemove(b, hash),
          value |-> <<[b[hash] EXCEPT !.next = <<b[hash].next[1]>>]>>]
    ELSE [found |-> FALSE, panic |-> FALSE, blocks |-> b, value |-> <<>>]

\* OutOfOrderBlocks::remove: found = a block came out, value = that block
\* with its next replaced by the chosen follower
remove(b, max_reorg, hash) ==
    CHOOSE out \in
      { IF nx = PanicHash \/ (nx /= NoHash /\ hash \notin DOMAIN b)
        THEN [found |-> FALSE, panic |-> TRUE, blocks |-> b, value |-> <<>>]
        ELSE IF nx /= NoHash
        THEN [found |-> TRUE, panic |-> FALSE, blocks |-> MapRemove(b, hash),
              value |-> <<[b[hash] EXCEPT !.next = <<nx>>]>>]
        ELSE [found |-> FALSE, panic |-> FALSE, blocks |-> b, value |-> <<>>] :
        nx \in {exist_and_has_followers(b, max_reorg, hash, <<>>)} } : TRUE

\* FsBlock -> BlockExtra (TryFrom): the payload is read back from the file
BlockExtraFrom(fs_block) ==
    [hash |-> fs_block.hash, next |-> fs_block.next, height |-> 0,
     txids |-> <<>>, block_total_txs |-> 0, prevouts |-> FALSE]

\* mutant of StampHeight: the counter is incremented before it is stamped
StampHeight_after_increment(block_extra, h) == [block_extra EXCEPT !.height = h + 1]

\* `block_extra.height = height`
StampHeight(block_extra, h) == [block_extra EXCEPT !.height = h]

\* mutant of TryRelease: the other blocks that extend the parent of the
\* released block are taken from the map with it
TryRelease_drops_siblings(st, max_reorg, h) ==
    CHOOSE out \in
      { IF r.panic
        THEN [blocks |-> st.blocks, follows |-> st.follows, next |-> st.next,
              batch |-> st.batch, pending |-> <<>>, panic |-> TRUE]
        ELSE IF r.found
        THEN LET be == StampHeight(BlockExtraFrom(r.value[1]), h)
             IN  [blocks |-> [x \in {y \in DOMAIN r.blocks : prevOf[y] /= prevOf[be.hash]}
                                  |-> r.blocks[x]],
                  follows |-> MapRemove(st.follows, be.hash),
                  next |-> be.next[1],
                  batch |-> st.batch, pending |-> <<be>>, panic |-> FALSE]
        ELSE [blocks |-> st.blocks, follows |-> st.follows, next |-> st.next,
              batch |-> st.batch, pending |-> <<>>, panic |-> FALSE] :
        r \in {remove(st.blocks, max_reorg, st.next)} } : TRUE

\* One evaluation of `while let Some(block_to_send) = blocks.remove(&next)`
\* up to the blocking send: st = [blocks, follows, next, batch],
\* result adds pending (<<>> or <<block_extra>>) and panic
TryRelease(st, max_reorg, h) ==
    CHOOSE out \in
      { IF r.panic
        THEN [blocks |-> st.blocks, follows |-> st.follows, next |-> st.next,
              batch |-> st.batch, pending |-> <<>>, panic |-> TRUE]
        ELSE IF r.found
        THEN LET be == StampHeight(BlockExtraFrom(r.value[1]), h)
             IN  [blocks |-> MapRemove(r.blocks, prevOf[be.hash]),
                  follows |-> MapRemove(st.follows, be.hash),
                  next |-> be.next[1],
                  batch |-> st.batch, pending |-> <<be>>, panic |-> FALSE]
        ELSE [blocks |-> st.blocks, follows |-> st.follows, next |-> st.next,
              batch |-> st.batch, pending |-> <<>>, panic |-> FALSE] :
        r \in {remove(st.blocks, max_reorg, st.next)} } : TRUE

\* mutant of ReorderLimit: one block more is let in
ReorderLimit_one_more == max_block_to_reorder \div dag_scale + 1

\* `blocks.blocks.len() > max_block_to_reorder`, in blocks of the model
ReorderLimit == max_block_to_reorder \div dag_scale

RECURSIVE ForRawBlocks(_, _, _)
\* the `'outer: for raw_block in raw_blocks` loop, run until a block has to
\* be sent, the batch is used up, or the thread panics
ForRawBlocks(st, max_reorg, h) ==
    IF st.batch = <<>>
    THEN [blocks |-> st.blocks, follows |-> st.follows, next |-> st.next,
          batch |-> <<>>, pending |-> <<>>, panic |-> FALSE]
    ELSE IF Cardinality(DOMAIN st.blocks) > ReorderLimit
    THEN [blocks |-> st.blocks, follows |-> st.follows, next |-> st.next,
          batch |-> st.batch, pending |-> <<>>, panic |-> TRUE]
    ELSE CHOOSE out \in
           { IF t.panic \/ t.pending /= <<>> THEN t
             ELSE ForRawBlocks(t, max_reorg, h) :
             t \in { TryRelease(s1, max_reorg, h) :
                     s1 \in { [blocks |-> a.blocks, follows |-> a.follows,
                               next |-> st.next, batch |-> Tail(st.batch)] :
                              a \in {add(st.blocks, st.follows, Head(st.batch))} } }
           } : TRUE

\* the while loop resumed after a send, then the rest of the for loop
ContinueRelease(st, max_reorg, h) ==
    CHOOSE out \in
      { IF t.panic \/ t.pending /= <<>> THEN t
        ELSE ForRawBlocks(t, max_reorg, h) :
        t \in {TryRelease(st, max_reorg, h)} } : TRUE

\* mutant of ReachedStop: the test is made one block late
ReachedStop_one_late(stop_at_height, h) == \E s \in stop_at_height : h > s + 1

\* `if height > stop_at_height` after `height += 1`
ReachedStop(stop_at_height, h) == \E s \in stop_at_height : h > s

\* ---------------------------------------------------------- ComputeTxids
MaxBlockTxs == 3        \* transactions in a block

\* the transactions in the bytes of the block with this hash: the part the
\* txid is the hash of, and the witness
block_txdata(hash) ==
    [i \in 1..(1 + (hash % MaxBlockTxs)) |-> [body |-> hash * (MaxBlockTxs + 1) + i,
                                            witness |-> i % 2]]

\* bsl::Transaction::txid: the hash of the serialization without witness
Txid(tx) == tx.body

RECURSIVE TxidsVisitor_reversed(_)
\* mutant of TxidsVisitor: the txids are collected last transaction first
TxidsVisitor_reversed(txs) ==
    IF txs = <<>> THEN <<>> ELSE Append(TxidsVisitor_reversed(Tail(txs)), Txid(Head(txs)))

RECURSIVE TxidsVisitor(_)
\* visit_transaction on every transaction of the block, in order
TxidsVisitor(txs) ==
    IF txs = <<>> THEN <<>> ELSE <<Txid(Head(txs))>> \o TxidsVisitor(Tail(txs))

\* BlockExtra::compute_txids
compute_txids(block_extra) ==
    IF block_extra.txids /= <<>> THEN block_extra
    ELSE [block_extra EXCEPT !.txids = TxidsVisitor(block_txdata(block_extra.hash)),
                             !.block_total_txs = Len(TxidsVisitor(block_txdata(block_extra.hash)))]

\* mutant of TxidsForwards: the block at start_at_height itself is dropped
TxidsForwards_strict(skip_prevout, start_at_height, h) ==
    (~skip_prevout) \/ h > start_at_height

\* mutant of TxidsForwards: every block is sent on
TxidsForwards_always(skip_prevout, start_at_height, h) == TRUE

\* `!skip_prevout || block_extra.height >= start_at_height`
TxidsForwards(skip_prevout, start_at_height, h) ==
    (~skip_prevout) \/ h >= start_at_height

\* ------------------------------------------------------------------- Fee
\* mutant of FeeForwards: every block is forwarded
FeeForwards_all(start_at_height, h) == TRUE

\* mutant of FeeForwards: the block at start_at_height itself is dropped
FeeForwards_strict(start_at_height, h) == h > start_at_height

\* `block_extra.height >= start_at_height`
FeeForwards(start_at_height, h) == h >= start_at_height

\* -------------------------------------------------------------- channels
\* a thread that has returned or panicked: its channel ends are dropped
Ended(pc) == pc \in {"done", "panicked"}

\* SyncSender::send returns Ok: the receiver is alive and there is a free
\* slot of the bounded buffer, or, for a rendezvous channel (capacity 0),
\* the receiver is blocked in recv()
CanSend(q, cap, receiver_pc) ==
    /\ ~Ended(receiver_pc)
    /\ \/ Len(q) < cap
       \/ cap = 0 /\ q = <<>> /\ receiver_pc = "recv"

\* mutant of SendFails: a send to a dropped receiver blocks
SendFails_blocks(receiver_pc) == FALSE

\* SyncSender::send returns Err: the receiver has been dropped
SendFails(receiver_pc) == Ended(receiver_pc)

\* Receiver::recv returns Err: the buffer is empty and every sender has
\* been dropped
RecvFails(q, senders_dropped) == q = <<>> /\ senders_dropped

\* wiring of iterate(): the sender handed to ComputeTxids
TxidsToConsumer == cfg.skip_prevout

\* ----------------------------------------------------------------- input
RECURSIVE Chunks(_, _)
\* a sequence of detected blocks laid out in files of at most k blocks
Chunks(s, k) ==
    IF Len(s) <= k THEN (IF s = <<>> THEN <<>> ELSE <<s>>)
    ELSE <<SubSeq(s, 1, k)>> \o Chunks(SubSeq(s, k + 1, Len(s)), k)

\* block trees: every block after the genesis extends a block with a
\* smaller number (arrival order is independent of the numbering)
Trees ==
    {t \in [Hashes -> 0..NumBlocks] :
        /\ t[Genesis] = ZeroHash
        /\ \A b \in Hashes \ {Genesis} : t[b] >= 1 /\ t[b] < b}

LinearTree == [b \in Hashes |-> b - 1]

\* arrival orders: any subset of the blocks, in any order, each once
InjSeqs ==
    UNION {{s \in [1..k -> Hashes] : \A i, j \in 1..k : i /= j => s[i] /= s[j]}
           : k \in 0..NumBlocks}

InOrder == [i \in 1..NumBlocks |-> i]

\* the chain in order with block d written once more at position p
WithDup(d, p) ==
    [i \in 1..(NumBlocks + 1) |->
        IF i < p THEN InOrder[i] ELSE IF i = p THEN d ELSE InOrder[i - 1]]

DupSeqs ==
    {InOrder} \cup {WithDup(d, p) : d \in {1, 2}, p \in {2, 3, NumBlocks + 1}}

\* no block handed to a utxo yet, empty stores on disk, no backend created
InitStores ==
    /\ chain = <<>>
    /\ mem = [open |-> FALSE, runs |-> 0, panic |-> FALSE, trunc |-> EmptyMap,
              full |-> EmptyMap, unspendable |-> 0, ret |-> <<>>]
    /\ db = NewStore
    /\ redb = NewStore
    /\ manager = [utxo_db |-> FALSE, utxo_redb |-> FALSE, result |-> "none"]

StopChoices == {{}} \cup {{s} : s \in 0..MaxStop}

\* no pure function is under evaluation
InitPure ==
    /\ codec = [pc |-> "idle"]
    /\ reward = [pc |-> "idle"]
    /\ scan = [pc |-> "idle"]
    /\ dag = [pc |-> "idle"]

InitThreads ==
    /\ rd_pc = IF files = <<>> THEN "end" ELSE "read"
    /\ rd_idx = 1
    /\ seen = {}
    /\ rd_batch = <<>>
    /\ rd_sent = <<>>
    /\ chan1 = <<>>
    /\ early_stop = FALSE
    /\ ro_pc = "recv"
    /\ blocks = EmptyMap
    /\ follows = EmptyMap
    /\ next = Genesis
    /\ height = 0
    /\ ro_batch = <<>>
    /\ ro_pending = <<>>
    /\ chan2 = <<>>
    /\ tx_pc = "recv"
    /\ tx_pending = <<>>
    /\ chan3 = <<>>
    /\ fee_pc = IF cfg.skip_prevout THEN "absent" ELSE "recv"
    /\ fee_pending = <<>>
    /\ utxo = <<>>
    /\ chanOut = <<>>
    /\ it_pc = "recv"
    /\ delivered = <<>>
    /\ eos = 0
    /\ released = <<>>
    /\ pl_pc = IF cfg.skip_prevout THEN "joinTxids" ELSE "joinFee"
    /\ pl_unwinding = FALSE
    /\ aborted = FALSE
    /\ InitStores

\* the usual disk: no two hashes share their first 12 bytes, and the Reorder
\* map is counted block by block
UsualDisk ==
    /\ first12 = [h \in Hashes |-> h]
    /\ dag_scale = 1
    /\ InitPure

\* forking trees and arbitrary arrival orders, default downstream settings
InitChain ==
    /\ cfg \in [max_reorg : 1..MaxReorg, stop_at_height : {{}},
                start_at_height : {0}, skip_prevout : BOOLEAN,
                channels_size : {0}]
    /\ prevOf \in Trees
    /\ \E s \in InjSeqs : files = Chunks(s, MaxFileLen)
    /\ UsualDisk
    /\ InitThreads

\* a linear chain, possibly with a block written twice, or a directory
\* without block files; every setting
InitPipe ==
    /\ cfg \in [max_reorg : 1..MaxReorg, stop_at_height : StopChoices,
                start_at_height : 0..MaxStart, skip_prevout : BOOLEAN,
                channels_size : 0..MaxChan]
    /\ prevOf = LinearTree
    /\ \E s \in DupSeqs \cup {<<>>}, k \in 1..MaxFileLen : files = Chunks(s, k)
    /\ UsualDisk
    /\ InitThreads

Init == InitChain \/ InitPipe

\* ------------------------------------------------------------ ReadDetect
rdVars == <<rd_pc, rd_idx, seen, rd_batch, rd_sent>>
roVars == <<ro_pc, blocks, follows, next, height, ro_batch, ro_pending, released>>
txVars == <<tx_pc, tx_pending>>
feeVars == <<fee_pc, fee_pending, utxo>>
itVars == <<it_pc, delivered, eos>>
pureVars == <<codec, reward, scan, dag>>
onDiskVars == <<cfg, prevOf, files, first12, dag_scale>>
diskVars == <<onDiskVars, pureVars>>
plVars == <<pl_pc, pl_unwinding, aborted>>
utxoVars == <<chain, mem, db, redb, manager>>
threadVars == <<plVars, rdVars, chan1, early_stop, roVars, chan2, txVars,
                chan3, feeVars, chanOut, itVars>>
pipeVars == <<diskVars, threadVars>>

\* mutant of ReadDetectFile: the batch is sent whatever early_stop holds
ReadDetectFile_ignores_early_stop ==
    /\ rd_pc = "read"
    /\ \E r \in {FilterSeen(files[rd_idx], seen)} :
           /\ seen' = r[2]
           /\ rd_batch' = [i \in 1..Len(r[1]) |-> into_fs_block(r[1][i])]
    /\ rd_idx' = rd_idx + 1
    /\ rd_pc' = "send"
    /\ UNCHANGED <<utxoVars, diskVars, plVars, rd_sent, chan1, early_stop, roVars, chan2, txVars,
                   chan3, feeVars, chanOut, itVars>>

\* one iteration of `for path in paths` up to the early_stop load
ReadDetectFile ==
    /\ rd_pc = "read"
    /\ \E r \in {FilterSeen(files[rd_idx], seen)} :
           /\ seen' = r[2]
           /\ rd_batch' = [i \in 1..Len(r[1]) |-> into_fs_block(r[1][i])]
    /\ rd_idx' = rd_idx + 1
    /\ rd_pc' = IF early_stop THEN "end" ELSE "send"
    /\ UNCHANGED <<utxoVars, diskVars, plVars, rd_sent, chan1, early_stop, roVars, chan2, txVars,
                   chan3, feeVars, chanOut, itVars>>

\* mutant of ReadDetectSend: a batch without blocks is not sent
ReadDetectSend_skips_empty ==
    /\ rd_pc = "send"
    /\ IF rd_batch = <<>>
       THEN UNCHANGED <<chan1, rd_sent>>
       ELSE /\ CanSend(chan1, ReadDetectChannelSize, ro_pc)
            /\ chan1' = Append(chan1, Some(rd_batch))
            /\ rd_sent' = Append(rd_sent, Some(rd_batch))
    /\ rd_batch' = <<>>
    /\ rd_pc' = IF rd_idx > Len(files) THEN "end" ELSE "read"
    /\ UNCHANGED <<utxoVars, diskVars, plVars, rd_idx, seen, early_stop, roVars, chan2, txVars,
                   chan3, feeVars, chanOut, itVars>>

\* sender.send(Some(fs_blocks))
ReadDetectSend ==
    /\ rd_pc = "send"
    /\ CanSend(chan1, ReadDetectChannelSize, ro_pc)
    /\ chan1' = Append(chan1, Some(rd_batch))
    /\ rd_sent' = Append(rd_sent, Some(rd_batch))
    /\ rd_batch' = <<>>
    /\ rd_pc' = IF rd_idx > Len(files) THEN "end" ELSE "read"
    /\ UNCHANGED <<utxoVars, diskVars, plVars, rd_idx, seen, early_stop, roVars, chan2, txVars,
                   chan3, feeVars, chanOut, itVars>>

\* `if !early_stop.load(Ordering::Relaxed)` after the loop
ReadDetectEnd ==
    /\ rd_pc = "end"
    /\ rd_pc' = IF early_stop THEN "done" ELSE "sendNone"
    /\ UNCHANGED <<utxoVars, diskVars, plVars, rd_idx, seen, rd_batch, rd_sent, chan1, early_stop, roVars,
                   chan2, txVars, chan3, feeVars, chanOut, itVars>>

\* sender.send(None)
ReadDetectSendNone ==
    /\ rd_pc = "sendNone"
    /\ CanSend(chan1, ReadDetectChannelSize, ro_pc)
    /\ chan1' = Append(chan1, None)
    /\ rd_sent' = Append(rd_sent, None)
    /\ rd_pc' = "done"
    /\ UNCHANGED <<utxoVars, diskVars, plVars, rd_idx, seen, rd_batch, early_stop, roVars, chan2,
                   txVars, chan3, feeVars, chanOut, itVars>>

\* --------------------------------------------------------------- Reorder
\* the Reorder state handed to the loop operators
RoState(batch) == [blocks |-> blocks, follows |-> follows, next |-> next, batch |-> batch]

\* store the outcome of the loop operators; it runs up to the next send
RoStore(t) ==
    /\ blocks' = t.blocks
    /\ follows' = t.follows
    /\ next' = t.next
    /\ ro_batch' = t.batch
    /\ ro_pending' = t.pending
    /\ ro_pc' = IF t.panic THEN "panicked"
                ELSE IF t.pending /= <<>> THEN "send" ELSE "recv"

\* receiver.recv() returns a message: None, a batch after early stop, or a
\* batch that is added block by block
ReorderRecv ==
    /\ ro_pc = "recv"
    /\ chan1 /= <<>>
    /\ chan1' = Tail(chan1)
    /\ LET received == Head(chan1)
       IN  IF received = None \/ early_stop
           THEN /\ ro_pc' = "sendNone"
                /\ UNCHANGED <<blocks, follows, next, ro_batch, ro_pending>>
           ELSE \E t \in {ForRawBlocks(RoState(received[1]), cfg.max_reorg, height)} :
                    RoStore(t)
    /\ UNCHANGED <<utxoVars, diskVars, plVars, rdVars, early_stop, height, released, chan2, txVars,
                   chan3, feeVars, chanOut, itVars>>

\* receiver.recv() fails because ReadDetect ended without sending None:
\* unwrap_or_default() turns the error into None
ReorderRecvDisconnected ==
    /\ ro_pc = "recv"
    /\ RecvFails(chan1, Ended(rd_pc))
    /\ ro_pc' = "sendNone"
    /\ UNCHANGED <<utxoVars, diskVars, plVars, rdVars, chan1, early_stop, blocks, follows, next,
                   height, ro_batch, ro_pending, released, chan2, txVars, chan3,
                   feeVars, chanOut, itVars>>

\* sender.send(Some(block_extra)), height += 1, the stop_at_height test and
\* the loops resumed up to the next send
ReorderSend ==
    /\ ro_pc = "send"
    /\ CanSend(chan2, cfg.channels_size, tx_pc)
    /\ chan2' = Append(chan2, Some(ro_pending[1]))
    /\ released' = Append(released, ro_pending[1])
    /\ height' = height + 1
    /\ IF ReachedStop(cfg.stop_at_height, height + 1)
       THEN /\ early_stop' = TRUE
            /\ ro_pc' = "recv"
            /\ ro_batch' = <<>>
            /\ ro_pending' = <<>>
            /\ UNCHANGED <<blocks, follows, next>>
       ELSE /\ \E t \in {ContinueRelease(RoState(ro_batch), cfg.max_reorg, height + 1)} :
                   RoStore(t)
            /\ UNCHANGED early_stop
    /\ UNCHANGED <<utxoVars, diskVars, plVars, rdVars, chan1, txVars, chan3, feeVars, chanOut, itVars>>

\* mutant of ReorderSendNone: None is sent only `if !early_stop`
ReorderSendNone_unless_early_stop ==
    /\ ro_pc = "sendNone"
    /\ IF early_stop
       THEN UNCHANGED chan2
       ELSE /\ CanSend(chan2, cfg.channels_size, tx_pc)
            /\ chan2' = Append(chan2, None)
    /\ ro_pc' = "done"
    /\ UNCHANGED <<utxoVars, diskVars, plVars, rdVars, chan1, early_stop, blocks, follows, next,
                   height, ro_batch, ro_pending, released, txVars, chan3,
                   feeVars, chanOut, itVars>>

\* sender.send(None) after the loop
ReorderSendNone ==
    /\ ro_pc = "sendNone"
    /\ CanSend(chan2, cfg.channels_size, tx_pc)
    /\ chan2' = Append(chan2, None)
    /\ ro_pc' = "done"
    /\ UNCHANGED <<utxoVars, diskVars, plVars, rdVars, chan1, early_stop, blocks, follows, next,
                   height, ro_batch, ro_pending, released, txVars, chan3,
                   feeVars, chanOut, itVars>>

\* ---------------------------------------------------------- ComputeTxids
ComputeTxidsRecv ==
    /\ tx_pc = "recv"
    /\ chan2 /= <<>>
    /\ chan2' = Tail(chan2)
    /\ LET received == Head(chan2)
       IN  IF received = None
           THEN tx_pc' = "sendNone" /\ UNCHANGED tx_pending
           ELSE IF TxidsForwards(cfg.skip_prevout, cfg.start_at_height, received[1].height)
           THEN /\ tx_pending' = <<compute_txids(received[1])>>
                /\ tx_pc' = "send"
           ELSE UNCHANGED <<tx_pc, tx_pending>>
    /\ UNCHANGED <<utxoVars, diskVars, plVars, rdVars, chan1, early_stop, roVars, chan3, feeVars,
                   chanOut, itVars>>

\* sender.send(..) of ComputeTxids: to the consumer or to Fee
TxidsPut(msg) ==
    IF TxidsToConsumer
    THEN /\ CanSend(chanOut, cfg.channels_size, it_pc)
         /\ chanOut' = Append(chanOut, msg)
         /\ UNCHANGED chan3
    ELSE /\ CanSend(chan3, cfg.channels_size, fee_pc)
         /\ chan3' = Append(chan3, msg)
         /\ UNCHANGED chanOut

ComputeTxidsSend ==
    /\ tx_pc = "send"
    /\ TxidsPut(Some(tx_pending[1]))
    /\ tx_pending' = <<>>
    /\ tx_pc' = "recv"
    /\ UNCHANGED <<utxoVars, diskVars, plVars, rdVars, chan1, early_stop, roVars, chan2, feeVars, itVars>>

\* mutant of ComputeTxidsSendNone: the thread returns without sending None
ComputeTxidsSendNone_silent ==
    /\ tx_pc = "sendNone"
    /\ tx_pc' = "done"
    /\ UNCHANGED <<utxoVars, diskVars, plVars, rdVars, chan1, early_stop, roVars, chan2, tx_pending,
                   chan3, chanOut, feeVars, itVars>>

ComputeTxidsSendNone ==
    /\ tx_pc = "sendNone"
    /\ TxidsPut(None)
    /\ tx_pc' = "done"
    /\ UNCHANGED <<utxoVars, diskVars, plVars, rdVars, chan1, early_stop, roVars, chan2, tx_pending,
                   feeVars, itVars>>

\* ------------------------------------------------------------------- Fee
FeeRecv ==
    /\ fee_pc = "recv"
    /\ chan3 /= <<>>
    /\ chan3' = Tail(chan3)
    /\ LET received == Head(chan3)
       IN  IF received = None
           THEN fee_pc' = "sendNone" /\ UNCHANGED <<fee_pending, utxo>>
           ELSE /\ utxo' = Append(utxo, received[1].height)
                /\ IF FeeForwards(cfg.start_at_height, received[1].height)
                   THEN /\ fee_pending' = <<[received[1] EXCEPT !.prevouts = TRUE]>>
                        /\ fee_pc' = "send"
                   ELSE UNCHANGED <<fee_pc, fee_pending>>
    /\ UNCHANGED <<utxoVars, diskVars, plVars, rdVars, chan1, early_stop, roVars, chan2, txVars,
                   chanOut, itVars>>

FeeSend ==
    /\ fee_pc = "send"
    /\ CanSend(chanOut, cfg.channels_size, it_pc)
    /\ chanOut' = Append(chanOut, Some(fee_pending[1]))
    /\ fee_pending' = <<>>
    /\ fee_pc' = "recv"
    /\ UNCHANGED <<utxoVars, diskVars, plVars, rdVars, chan1, early_stop, roVars, chan2, txVars,
                   chan3, utxo, itVars>>

FeeSendNone ==
    /\ fee_pc = "sendNone"
    /\ CanSend(chanOut, cfg.channels_size, it_pc)
    /\ chanOut' = Append(chanOut, None)
    /\ fee_pc' = "done"
    /\ UNCHANGED <<utxoVars, diskVars, plVars, rdVars, chan1, early_stop, roVars, chan2, txVars,
                   chan3, fee_pending, utxo, itVars>>

\* ---------------------------------------------------- BlockExtraIterator
\* next(): Ok(Some(val)) yields the block, Ok(None) goes on to join the
\* iterate() thread
IteratorNext ==
    /\ it_pc = "recv"
    /\ chanOut /= <<>>
    /\ chanOut' = Tail(chanOut)
    /\ LET received == Head(chanOut)
       IN  IF received = None
           THEN /\ eos' = eos + 1
                /\ it_pc' = "join"
                /\ UNCHANGED delivered
           ELSE /\ delivered' = Append(delivered, received[1])
                /\ UNCHANGED <<eos, it_pc>>
    /\ UNCHANGED <<utxoVars, diskVars, plVars, rdVars, chan1, early_stop, roVars, chan2, txVars,
                   chan3, feeVars>>

\* mutant of IteratorJoin: None is returned without joining the handle
IteratorJoin_without_join ==
    /\ it_pc = "join"
    /\ it_pc' = "done"
    /\ UNCHANGED <<utxoVars, diskVars, plVars, rdVars, chan1, early_stop, roVars, chan2,
                   txVars, chan3, feeVars, chanOut, delivered, eos>>

\* handle.join().unwrap() in next(), then None is returned to the caller
IteratorJoin ==
    /\ it_pc = "join"
    /\ Ended(pl_pc)
    /\ it_pc' = IF pl_pc = "panicked" THEN "panicked" ELSE "done"
    /\ UNCHANGED <<utxoVars, diskVars, plVars, rdVars, chan1, early_stop, roVars, chan2,
                   txVars, chan3, feeVars, chanOut, delivered, eos>>

\* ------------------------------------------------- the iterate() thread
\* Drop of a stage handle: jh.join().expect("thread failed").  A panic
\* of the joined thread makes the join panic; when the iterate() thread is
\* already unwinding, the second panic aborts the process and with it
\* every thread
JoinStage(at, stage_pc, then) ==
    /\ pl_pc = at
    /\ Ended(stage_pc)
    /\ IF stage_pc = "panicked" /\ pl_unwinding
       THEN /\ aborted' = TRUE
            /\ pl_pc' = "aborted" /\ rd_pc' = "aborted" /\ ro_pc' = "aborted"
            /\ tx_pc' = "aborted" /\ fee_pc' = "aborted" /\ it_pc' = "aborted"
            /\ UNCHANGED pl_unwinding
       ELSE /\ pl_unwinding' = (pl_unwinding \/ stage_pc = "panicked")
            /\ pl_pc' = IF then = "end"
                        THEN (IF pl_unwinding \/ stage_pc = "panicked"
                              THEN "panicked" ELSE "done")
                        ELSE then
            /\ UNCHANGED <<aborted, rd_pc, ro_pc, tx_pc, fee_pc, it_pc>>
    /\ UNCHANGED <<utxoVars, diskVars, rd_idx, seen, rd_batch, rd_sent, chan1, early_stop, blocks,
                   follows, next, height, ro_batch, ro_pending, released, chan2,
                   tx_pending, chan3, fee_pending, utxo, chanOut, delivered, eos>>

\* `_fee` goes out of scope at the end of the `if !config.skip_prevout` block
JoinFee == JoinStage("joinFee", fee_pc, "joinTxids")

JoinTxids == JoinStage("joinTxids", tx_pc, "joinReorder")

JoinReorder == JoinStage("joinReorder", ro_pc, "joinRead")

JoinRead == JoinStage("joinRead", rd_pc, "end")

Next ==
    \/ ReadDetectFile
    \/ ReadDetectSend
    \/ ReadDetectEnd
    \/ ReadDetectSendNone
    \/ ReorderRecv
    \/ ReorderRecvDisconnected
    \/ ReorderSend
    \/ ReorderSendNone
    \/ ComputeTxidsRecv
    \/ ComputeTxidsSend
    \/ ComputeTxidsSendNone
    \/ FeeRecv
    \/ FeeSend
    \/ FeeSendNone
    \/ IteratorNext
    \/ IteratorJoin
    \/ JoinFee
    \/ JoinTxids
    \/ JoinReorder
    \/ JoinRead

Spec == Init /\ [][Next]_vars

\* the liveness specification: a runnable thread is eventually scheduled
\* and the consumer keeps calling next(); linear chains, every setting
FairSpec == InitPipe /\ [][Next]_vars /\ WF_vars(Next)

\* ---------------------------------------------------------- fatal failures
\* no stage thread has panicked so far; failures are injected one per run,
\* and not when max_reorg = 0 makes Reorder panic by itself
NoPanic ==
    /\ cfg.max_reorg > 0
    /\ "panicked" \notin {rd_pc, ro_pc, tx_pc, fee_pc}

\* File::open, read_to_end or detect fails: unwrap() panics
ReadDetectFails ==
    /\ NoPanic
    /\ rd_pc = "read"
    /\ rd_pc' = "panicked"
    /\ UNCHANGED <<utxoVars, diskVars, plVars, rd_idx, seen, rd_batch, rd_sent, chan1, early_stop, roVars,
                   chan2, txVars, chan3, feeVars, chanOut, itVars>>

\* sender.send(..).expect("cannot send") with the receiver dropped
ReadDetectSendFails ==
    /\ rd_pc \in {"send", "sendNone"}
    /\ SendFails(ro_pc)
    /\ rd_pc' = "panicked"
    /\ UNCHANGED <<utxoVars, diskVars, plVars, rd_idx, seen, rd_batch, rd_sent, chan1, early_stop, roVars,
                   chan2, txVars, chan3, feeVars, chanOut, itVars>>

\* a batch is received and the loop body panics (more than 10_000 blocks
\* kept, or try_into() of the block to send fails)
ReorderFails ==
    /\ NoPanic
    /\ ro_pc = "recv"
    /\ chan1 /= <<>> /\ Head(chan1) /= None /\ ~early_stop
    /\ chan1' = Tail(chan1)
    /\ ro_pc' = "panicked"
    /\ UNCHANGED <<utxoVars, diskVars, plVars, rdVars, early_stop, blocks, follows, next, height,
                   ro_batch, ro_pending, released, chan2, txVars, chan3, feeVars,
                   chanOut, itVars>>

\* sender.send(..).unwrap() / expect(..) with the receiver dropped
ReorderSendFails ==
    /\ ro_pc \in {"send", "sendNone"}
    /\ SendFails(tx_pc)
    /\ ro_pc' = "panicked"
    /\ UNCHANGED <<utxoVars, diskVars, plVars, rdVars, chan1, early_stop, blocks, follows, next,
                   height, ro_batch, ro_pending, released, chan2, txVars, chan3,
                   feeVars, chanOut, itVars>>

\* a block is received and compute_txids() panics
ComputeTxidsFails ==
    /\ NoPanic
    /\ tx_pc = "recv"
    /\ chan2 /= <<>> /\ Head(chan2) /= None
    /\ chan2' = Tail(chan2)
    /\ tx_pc' = "panicked"
    /\ UNCHANGED <<utxoVars, diskVars, plVars, rdVars, chan1, early_stop, roVars, tx_pending,
                   chan3, feeVars, chanOut, itVars>>

\* receiver.recv().unwrap() with Reorder gone and nothing buffered
ComputeTxidsRecvFails ==
    /\ tx_pc = "recv"
    /\ RecvFails(chan2, Ended(ro_pc))
    /\ tx_pc' = "panicked"
    /\ UNCHANGED <<utxoVars, diskVars, plVars, rdVars, chan1, early_stop, roVars, chan2,
                   tx_pending, chan3, feeVars, chanOut, itVars>>

\* sender.send(..).unwrap() of ComputeTxids with Fee gone (the consumer
\* keeps its receiver)
ComputeTxidsSendFails ==
    /\ tx_pc \in {"send", "sendNone"}
    /\ ~TxidsToConsumer
    /\ SendFails(fee_pc)
    /\ tx_pc' = "panicked"
    /\ UNCHANGED <<utxoVars, diskVars, plVars, rdVars, chan1, early_stop, roVars, chan2,
                   tx_pending, chan3, feeVars, chanOut, itVars>>

\* a block is received and add_outputs_get_inputs or prevouts.next()
\* panics on unwrap()
FeeFails ==
    /\ NoPanic
    /\ fee_pc = "recv"
    /\ chan3 /= <<>> /\ Head(chan3) /= None
    /\ chan3' = Tail(chan3)
    /\ fee_pc' = "panicked"
    /\ UNCHANGED <<utxoVars, diskVars, plVars, rdVars, chan1, early_stop, roVars, chan2, txVars,
                   fee_pending, utxo, chanOut, itVars>>

\* receiver.recv().unwrap() with ComputeTxids gone and nothing buffered
FeeRecvFails ==
    /\ fee_pc = "recv"
    /\ RecvFails(chan3, Ended(tx_pc))
    /\ fee_pc' = "panicked"
    /\ UNCHANGED <<utxoVars, diskVars, plVars, rdVars, chan1, early_stop, roVars, chan2, txVars,
                   chan3, fee_pending, utxo, chanOut, itVars>>

\* every SyncSender of the consumer's channel is dropped: the last stage
\* owns one, and with skip_prevout the iterate() closure keeps `channel`
\* (the stage got a clone) until it ends
ConsumerSendersDropped ==
    IF cfg.skip_prevout THEN Ended(tx_pc) /\ Ended(pl_pc) ELSE Ended(fee_pc)

\* next(): Err(e) is logged and the handle is joined
IteratorRecvErr ==
    /\ it_pc = "recv"
    /\ RecvFails(chanOut, ConsumerSendersDropped)
    /\ it_pc' = "join"
    /\ UNCHANGED <<utxoVars, diskVars, plVars, rdVars, chan1, early_stop, roVars, chan2, txVars,
                   chan3, feeVars, chanOut, delivered, eos>>

\* the steps of runs in which a stage may panic
NextFault ==
    \/ Next
    \/ ReadDetectFails
    \/ ReadDetectSendFails
    \/ ReorderFails
    \/ ReorderSendFails
    \/ ComputeTxidsFails
    \/ ComputeTxidsRecvFails
    \/ ComputeTxidsSendFails
    \/ FeeFails
    \/ FeeRecvFails
    \/ IteratorRecvErr

\* the chain in order; max_reorg = 0 is the setting with which Reorder
\* panics on its first block
InitFault ==
    /\ cfg \in [max_reorg : 0..1, stop_at_height : {{}, {1}},
                start_at_height : {0}, skip_prevout : BOOLEAN,
                channels_size : 0..MaxChan]
    /\ prevOf = LinearTree
    /\ \E k \in 1..MaxFileLen : files = Chunks(InOrder, k)
    /\ UsualDisk
    /\ InitThreads

\* runs with at most one failing stage, under the fairness of FairSpec
FaultSpec == InitFault /\ [][NextFault]_vars /\ WF_vars(NextFault)

\* ------------------------------------------- the consumer drops the iterator
\* mutant of SendToConsumerFails: a send to the dropped receiver blocks
SendToConsumerFails_blocks == FALSE

\* SyncSender::send on the output channel returns Err: the consumer has
\* dropped the BlockExtraIterator and with it the Receiver
SendToConsumerFails == it_pc = "dropped"

\* the consumer drops the iterator between two calls of next(), before the
\* end of the stream: the Receiver goes with what is buffered in it, the
\* JoinHandle is dropped without a join
ConsumerDrops ==
    /\ it_pc = "recv"
    /\ eos = 0
    /\ it_pc' = "dropped"
    /\ chanOut' = <<>>
    /\ UNCHANGED <<utxoVars, diskVars, plVars, rdVars, chan1, early_stop, roVars, chan2, txVars,
                   chan3, feeVars, delivered, eos>>

\* sender.send(..).unwrap() / expect(..) of Fee with the consumer gone
FeeSendToDropped ==
    /\ fee_pc \in {"send", "sendNone"}
    /\ SendToConsumerFails
    /\ fee_pc' = "panicked"
    /\ UNCHANGED <<utxoVars, diskVars, plVars, rdVars, chan1, early_stop, roVars, chan2, txVars,
                   chan3, fee_pending, utxo, chanOut, itVars>>

\* sender.send(..).unwrap() / expect(..) of ComputeTxids, wired to the
\* consumer, with the consumer gone
TxidsSendToDropped ==
    /\ tx_pc \in {"send", "sendNone"}
    /\ TxidsToConsumer
    /\ SendToConsumerFails
    /\ tx_pc' = "panicked"
    /\ UNCHANGED <<utxoVars, diskVars, plVars, rdVars, chan1, early_stop, roVars, chan2,
                   tx_pending, chan3, feeVars, chanOut, itVars>>

\* the steps of runs in which the consumer may drop the iterator
NextDrop ==
    \/ Next
    \/ ConsumerDrops
    \/ FeeSendToDropped
    \/ TxidsSendToDropped
    \/ ComputeTxidsSendFails
    \/ ReorderSendFails
    \/ ReadDetectSendFails

\* the steps of the four stage threads
StageSteps ==
    \/ ReadDetectFile \/ ReadDetectSend \/ ReadDetectEnd \/ ReadDetectSendNone
    \/ ReorderRecv \/ ReorderRecvDisconnected \/ ReorderSend \/ ReorderSendNone
    \/ ComputeTxidsRecv \/ ComputeTxidsSend \/ ComputeTxidsSendNone
    \/ FeeRecv \/ FeeSend \/ FeeSendNone
    \/ FeeSendToDropped \/ TxidsSendToDropped
    \/ ComputeTxidsSendFails \/ ReorderSendFails \/ ReadDetectSendFails

\* the chain in order, in files of every size
InitDrop ==
    /\ cfg \in [max_reorg : {1}, stop_at_height : {{}, {1}},
                start_at_height : {0}, skip_prevout : BOOLEAN,
                channels_size : 0..MaxChan]
    /\ prevOf = LinearTree
    /\ \E k \in 1..MaxFileLen : files = Chunks(InOrder, k)
    /\ UsualDisk
    /\ InitThreads

\* runs in which the consumer may drop the iterator at any time; every
\* stage thread that can take a step is scheduled in the end, the consumer
\* is not bound to do anything
DropSpec == InitDrop /\ [][NextDrop]_vars /\ WF_vars(StageSteps)

\* ================================================================== utxo
\* Fee hands every block, in height order, to add_outputs_get_inputs of
\* the backend built by Config::utxo_manager.  A txid is a positive integer,
\* an OutPoint is [txid, vout], a script is [class, bytes] and a TxOut is
\* [script_pubkey, value].
MaxHeight == 1          \* blocks of heights 0..MaxHeight
MaxTxs == 2             \* transactions after the coinbase in a block
MaxIns == 2             \* inputs of a transaction
MaxRuns == 3            \* runs, each with the backend utxo_manager builds

\* amounts are in a unit in which a block creates Subsidy; a u64 holds the
\* values 0..U64Mod - 1 (2^64 satoshi in the program, 8,784 times the
\* 21 million bitcoin there can be; here the chain's money is below it by a
\* factor a block of the bounds reaches)
Subsidy == 3
U64Mod == 8

\* range of OutPoint::hash64 (2^64 in the program), small enough for two
\* outpoints to collide
Hash64Mod == 4

OutPoint(txid, vout) == [txid |-> txid, vout |-> vout]

\* OutPoint::default(), the previous_output of a coinbase input
NullOutPoint == OutPoint(0, -1)

\* outputs per transaction are at most 2: a number that tells outpoints apart
OutId(outpoint) == outpoint.txid * 2 + outpoint.vout

\* 64-bit fingerprint of an outpoint
hash64(outpoint) == OutId(outpoint) % Hash64Mod

\* Script::is_op_return: the script begins with OP_RETURN
is_op_return(script) == script.class = "op_return"

\* Script::is_provably_unspendable: the first opcode is OP_RETURN or another
\* opcode that makes every execution fail
is_provably_unspendable(script) == script.class \in {"op_return", "illegal"}

\* the TxOut that transaction txid declares at index vout with a script of
\* the given class: the script bytes differ from every other output
NewTxOut(class, txid, vout, value) ==
    [script_pubkey |-> [class |-> class, bytes |-> OutId(OutPoint(txid, vout))],
     value |-> value]

\* ScriptBuf::new()
EmptyScript == [class |-> "empty", bytes |-> 0]

\* script classes of the outputs of the coinbase of height h and of the
\* transaction at position i
CoinbaseShape(h) ==
    IF h % 3 = 0 THEN <<"p2pkh", "other">>
    ELSE IF h % 3 = 1 THEN <<"p2sh", "op_return">>
    ELSE <<"other", "illegal">>

TxShape(i) == IF i % 2 = 1 THEN <<"illegal", "p2wpkh">> ELSE <<"other">>

\* txids are unique: position i (0 = coinbase) of the block of height h
TxidAt(h, i) == h * (MaxTxs + 1) + i + 1

\* the amount a transaction pays out goes to its outputs with a spendable
\* script, the first one taking the remainder; the others carry no value
Amounts(shape, amount) ==
    LET spendable == {v \in DOMAIN shape : shape[v] \notin {"op_return", "illegal"}}
        first == CHOOSE v \in spendable : \A w \in spendable : v <= w
        share == amount \div Cardinality(spendable)
    IN  [v \in DOMAIN shape |->
            IF v \notin spendable THEN 0
            ELSE IF v = first THEN amount - share * (Cardinality(spendable) - 1)
            ELSE share]

NewTx(txid, input, shape, amount) ==
    [txid |-> txid, input |-> input,
     output |-> [v \in 1..Len(shape) |->
                    NewTxOut(shape[v], txid, v - 1, Amounts(shape, amount)[v])]]

RECURSIVE SumSeq(_)
SumSeq(seq) == IF seq = <<>> THEN 0 ELSE Head(seq) + SumSeq(Tail(seq))

\* the fee the transaction at position i leaves to the miner
FeePaid(i, in_value) == IF i % 2 = 0 /\ in_value > 1 THEN 1 ELSE 0

\* the outpoints a transaction creates that a later input may spend
SpendableOutpoints(tx) ==
    {OutPoint(tx.txid, v - 1) : v \in {w \in DOMAIN tx.output :
                                       ~is_provably_unspendable(tx.output[w].script_pubkey)}}

\* the same outpoints with their values
SpendableValues(tx) ==
    [o \in SpendableOutpoints(tx) |-> tx.output[o.vout + 1].value]

\* two maps with disjoint keys, as one
MapUnion(f, g) == [x \in DOMAIN f \cup DOMAIN g |-> IF x \in DOMAIN f THEN f[x] ELSE g[x]]

SeqToSet(seq) == {seq[i] : i \in DOMAIN seq}

\* sequences of 1..MaxIns distinct outpoints of avail
InputSeqs(avail) ==
    {s \in UNION {[1..k -> avail] : k \in 1..MaxIns} :
        \A i, j \in DOMAIN s : i /= j => s[i] /= s[j]}

\* the transaction at position i of the block of height h that spends ins,
\* avail giving the value of every unspent outpoint: it pays out what it
\* spends, less the fee
SpendingTx(avail, h, i, ins) ==
    LET in_value == SumSeq([k \in DOMAIN ins |-> avail[ins[k]]])
    IN  NewTx(TxidAt(h, i), ins, TxShape(i), in_value - FeePaid(i, in_value))

RECURSIVE BlockTails(_, _, _)
\* the transactions i.. of a valid block of height h: each spends outputs
\* that are unspent, of earlier blocks or of earlier transactions of the block
BlockTails(avail, h, i) ==
    {<<>>} \cup
    (IF i > MaxTxs THEN {}
     ELSE UNION {
            {<<SpendingTx(avail, h, i, ins)>> \o rest :
               rest \in BlockTails(
                          MapUnion([o \in DOMAIN avail \ SeqToSet(ins) |-> avail[o]],
                                   SpendableValues(SpendingTx(avail, h, i, ins))),
                          h, i + 1)}
            : ins \in InputSeqs(DOMAIN avail) })

AllTxs(ch) == UNION {SeqToSet(ch[h]) : h \in DOMAIN ch}

\* the spendable outpoints of the chain that no input has spent
Unspent(ch) ==
    UNION {SpendableOutpoints(tx) : tx \in AllTxs(ch)}
        \ UNION {SeqToSet(tx.input) : tx \in AllTxs(ch)}

\* the unspent outpoints with their values
UnspentValues(ch) ==
    [o \in Unspent(ch) |->
        (CHOOSE tx \in AllTxs(ch) : tx.txid = o.txid).output[o.vout + 1].value]

\* what the inputs of a transaction are worth less what its outputs are
TxFeeOf(ch, block, tx) ==
    LET declared(o) == (CHOOSE t \in AllTxs(ch) \cup SeqToSet(block) :
                           t.txid = o.txid).output[o.vout + 1].value
    IN  SumSeq([k \in DOMAIN tx.input |-> declared(tx.input[k])])
          - SumSeq([v \in DOMAIN tx.output |-> tx.output[v].value])

\* the valid blocks that extend the chain: the coinbase pays out the
\* subsidy and the fees of the block
NextBlocks(ch) ==
    {<<NewTx(TxidAt(Len(ch), 0), <<>>, CoinbaseShape(Len(ch)),
             Subsidy + SumSeq([t \in DOMAIN tail |-> TxFeeOf(ch, tail, tail[t])]))>> \o tail :
        tail \in BlockTails(UnspentValues(ch), Len(ch), 1)}

RECURSIVE ConcatSeqs(_)
ConcatSeqs(ss) == IF ss = <<>> THEN <<>> ELSE Head(ss) \o ConcatSeqs(Tail(ss))

\* block_extra.iter_tx() with tx.output.iter().enumerate(): every output
\* of the block with its outpoint, in order
BlockOutputs(block) ==
    ConcatSeqs([t \in DOMAIN block |->
        [v \in DOMAIN block[t].output |->
            [outpoint |-> OutPoint(block[t].txid, v - 1), tx_out |-> block[t].output[v]]]])

\* block.txdata.iter().skip(1) with tx.input.iter(): the inputs' outpoints
BlockInputs(block) == ConcatSeqs([t \in 1..(Len(block) - 1) |-> block[t + 1].input])

\* --------------------------------------------------------------- MemUtxo
\* From<&ScriptBuf> for StackScript: the common scripts are kept as their
\* 20-byte hash, the others whole
StackScriptFrom(script) ==
    IF script.class = "p2pkh" THEN [variant |-> "P2Pkh", hash |-> script.bytes, other |-> <<>>]
    ELSE IF script.class = "p2sh" THEN [variant |-> "P2Sh", hash |-> script.bytes, other |-> <<>>]
    ELSE IF script.class = "p2wpkh"
         THEN [variant |-> "P2V0Wpkh", hash |-> script.bytes, other |-> <<>>]
    ELSE [variant |-> "Other", hash |-> 0, other |-> <<script>>]

\* mutant of ScriptBufFrom: every hash is rebuilt as a P2PKH script
ScriptBufFrom_always_p2pkh(stack_script) ==
    IF stack_script.variant = "Other" THEN stack_script.other[1]
    ELSE [class |-> "p2pkh", bytes |-> stack_script.hash]

\* From<StackScript> for ScriptBuf
ScriptBufFrom(stack_script) ==
    IF stack_script.variant = "Other" THEN stack_script.other[1]
    ELSE IF stack_script.variant = "P2Pkh" THEN [class |-> "p2pkh", bytes |-> stack_script.hash]
    ELSE IF stack_script.variant = "P2Sh" THEN [class |-> "p2sh", bytes |-> stack_script.hash]
    ELSE [class |-> "p2wpkh", bytes |-> stack_script.hash]

\* mutant of TruncMap_insert: a colliding key replaces the entry of trunc
TruncMap_insert_no_rollback(m, outpoint, tx_out) ==
    [m EXCEPT !.trunc = MapInsert(m.trunc, hash64(outpoint),
                                  <<StackScriptFrom(tx_out.script_pubkey), tx_out.value>>),
              !.full = IF hash64(outpoint) \in DOMAIN m.trunc
                       THEN MapInsert(m.full, outpoint, tx_out) ELSE m.full]

\* TruncMap::insert: trunc keeps its entry when the key is taken, and the
\* new outpoint goes to full
TruncMap_insert(m, outpoint, tx_out) ==
    IF hash64(outpoint) \in DOMAIN m.trunc
    THEN [m EXCEPT !.full = MapInsert(m.full, outpoint, tx_out)]
    ELSE [m EXCEPT !.trunc = MapInsert(m.trunc, hash64(outpoint),
                                       <<StackScriptFrom(tx_out.script_pubkey), tx_out.value>>)]

\* mutant of TruncMap_remove: full is not looked up
TruncMap_remove_trunc_only(m, outpoint) ==
    IF hash64(outpoint) \in DOMAIN m.trunc
    THEN [m |-> [m EXCEPT !.trunc = MapRemove(m.trunc, hash64(outpoint))],
          val |-> <<[script_pubkey |-> ScriptBufFrom(m.trunc[hash64(outpoint)][1]),
                     value |-> m.trunc[hash64(outpoint)][2]]>>]
    ELSE [m |-> m, val |-> <<>>]

\* TruncMap::remove: val is <<tx_out>> or <<>> (None)
TruncMap_remove(m, outpoint) ==
    IF outpoint \in DOMAIN m.full
    THEN [m |-> [m EXCEPT !.full = MapRemove(m.full, outpoint)], val |-> <<m.full[outpoint]>>]
    ELSE IF hash64(outpoint) \in DOMAIN m.trunc
    THEN [m |-> [m EXCEPT !.trunc = MapRemove(m.trunc, hash64(outpoint))],
          val |-> <<[script_pubkey |-> ScriptBufFrom(m.trunc[hash64(outpoint)][1]),
                     value |-> m.trunc[hash64(outpoint)][2]]>>]
    ELSE [m |-> m, val |-> <<>>]

RECURSIVE add_tx_outputs(_, _)
\* MemUtxo::add_tx_outputs over the transactions of the block: OP_RETURN
\* outputs are counted and skipped
add_tx_outputs(m, outs) ==
    IF outs = <<>> THEN m
    ELSE add_tx_outputs(
           IF is_op_return(Head(outs).tx_out.script_pubkey)
           THEN [m EXCEPT !.unspendable = @ + 1]
           ELSE TruncMap_insert(m, Head(outs).outpoint, Head(outs).tx_out),
           Tail(outs))

RECURSIVE MemRemoveInputs(_, _, _)
RECURSIVE MemRemoveInputs_newest_first(_, _, _)
\* mutant of MemRemoveInputs: the removed TxOut is put in front of the vector
MemRemoveInputs_newest_first(m, ins, prevouts) ==
    IF ins = <<>> THEN [m |-> m, prevouts |-> prevouts, panic |-> FALSE]
    ELSE LET r == TruncMap_remove(m, Head(ins))
         IN  IF r.val = <<>> THEN [m |-> m, prevouts |-> prevouts, panic |-> TRUE]
             ELSE MemRemoveInputs_newest_first(r.m, Tail(ins), <<r.val[1]>> \o prevouts)

\* the loop over the inputs: self.map.remove(..).unwrap()
MemRemoveInputs(m, ins, prevouts) ==
    IF ins = <<>> THEN [m |-> m, prevouts |-> prevouts, panic |-> FALSE]
    ELSE LET r == TruncMap_remove(m, Head(ins))
         IN  IF r.val = <<>> THEN [m |-> m, prevouts |-> prevouts, panic |-> TRUE]
             ELSE MemRemoveInputs(r.m, Tail(ins), Append(prevouts, r.val[1]))

\* MemUtxo::add_outputs_get_inputs
MemUtxo_add_outputs_get_inputs(m, block) ==
    MemRemoveInputs(add_tx_outputs(m, BlockOutputs(block)), BlockInputs(block), <<>>)

\* MemUtxo::new
MemUtxo_new(m) ==
    [open |-> TRUE, runs |-> m.runs + 1, panic |-> FALSE, trunc |-> EmptyMap,
     full |-> EmptyMap, unspendable |-> 0, ret |-> <<>>]

\* ---------------------------------------------------- DbUtxo and RedbUtxo
\* the test on script_pubkey under which an output is left out of
\* block_outputs: is_op_return in DbUtxo, is_provably_unspendable in RedbUtxo
Skipped(backend, script) ==
    IF backend = "redb" THEN is_provably_unspendable(script) ELSE is_op_return(script)

\* the block_outputs HashMap: the outputs of the block the backend keeps
block_outputs_of(outs, backend) ==
    [o \in {outs[i].outpoint :
               i \in {j \in DOMAIN outs : ~Skipped(backend, outs[j].tx_out.script_pubkey)}}
        |-> outs[CHOOSE i \in DOMAIN outs : outs[i].outpoint = o].tx_out]

RECURSIVE SpendInputs(_, _, _, _, _)
\* the loop over the inputs: an output of this block leaves block_outputs,
\* any other is read from the store (unwrap) and marked for deletion
SpendInputs(block_outputs, utxo_table, ins, prevouts, to_delete) ==
    IF ins = <<>>
    THEN [block_outputs |-> block_outputs, prevouts |-> prevouts,
          to_delete |-> to_delete, panic |-> FALSE]
    ELSE IF Head(ins) \in DOMAIN block_outputs
    THEN SpendInputs(MapRemove(block_outputs, Head(ins)), utxo_table, Tail(ins),
                     Append(prevouts, block_outputs[Head(ins)]), to_delete)
    ELSE IF Head(ins) \in DOMAIN utxo_table
    THEN SpendInputs(block_outputs, utxo_table, Tail(ins),
                     Append(prevouts, utxo_table[Head(ins)]), to_delete \cup {Head(ins)})
    ELSE [block_outputs |-> block_outputs, prevouts |-> prevouts,
          to_delete |-> to_delete, panic |-> TRUE]

\* mutant of NeedsCompute: every block is computed again
NeedsCompute_always(h, updated_up_to_height) == TRUE

\* `if height > self.updated_up_to_height`
NeedsCompute(h, updated_up_to_height) == h > updated_up_to_height

\* add_outputs_get_inputs of a persistent backend; the write batch or
\* transaction is applied as a whole.  Result: the store and the handle
\* with the returned vector appended to ret, or panic set
StoreAdd(st, block, h, backend) ==
    IF NeedsCompute(h, st.updated_up_to_height)
    THEN LET r == SpendInputs(block_outputs_of(BlockOutputs(block), backend), st.utxo,
                              BlockInputs(block), <<>>, {})
         IN  IF r.panic THEN [st EXCEPT !.panic = TRUE]
             ELSE [st EXCEPT
                     !.utxo = [o \in (DOMAIN st.utxo \ r.to_delete) \cup DOMAIN r.block_outputs
                                 |-> IF o \in DOMAIN r.block_outputs
                                     THEN r.block_outputs[o] ELSE st.utxo[o]],
                     !.prevouts = IF r.prevouts /= <<>>
                                  THEN MapInsert(st.prevouts, h, r.prevouts)
                                  ELSE st.prevouts,
                     !.height = h,
                     !.inserted_outputs = @ + Cardinality(DOMAIN r.block_outputs),
                     !.ret = Append(st.ret, r.prevouts),
                     !.computed = MapInsert(st.computed, h, r.prevouts)]
    ELSE IF Len(block) = 1
    THEN [st EXCEPT !.ret = Append(st.ret, <<>>)]
    ELSE IF h \in DOMAIN st.prevouts
    THEN [st EXCEPT !.ret = Append(st.ret, st.prevouts[h])]
    ELSE [st EXCEPT !.panic = TRUE]

\* DbUtxo::add_outputs_get_inputs: OP_RETURN outputs are not stored
DbUtxo_add_outputs_get_inputs(st, block, h) ==
    StoreAdd(st, block, h, "db")

\* RedbUtxo::add_outputs_get_inputs: provably unspendable outputs are not
\* stored
RedbUtxo_add_outputs_get_inputs(st, block, h) ==
    StoreAdd(st, block, h, "redb")

\* DbUtxo::new / RedbUtxo::new on a store: the recorded height is read
StoreOpen(st) ==
    [st EXCEPT !.open = TRUE, !.runs = st.runs + 1, !.panic = FALSE,
               !.updated_up_to_height = st.height, !.inserted_outputs = 0,
               !.ret = <<>>]

\* ---------------------------------------------------- Config::utxo_manager
\* mutant of utxo_manager: with both paths set the rocksdb backend is built
utxo_manager_prefers_db(utxo_db, utxo_redb, opened) ==
    IF utxo_db THEN (IF opened THEN "Db" ELSE "Rocksdb")
    ELSE IF utxo_redb THEN (IF opened THEN "Redb" ELSE "Redb error")
    ELSE "Mem"

\* Config::utxo_manager with both features: utxo_db and utxo_redb tell
\* whether the path is Some, opened whether DbUtxo::new / RedbUtxo::new
\* returns Ok.  The result is the AnyUtxo variant or the Error variant
utxo_manager(utxo_db, utxo_redb, opened) ==
    IF utxo_db /\ utxo_redb THEN "OneDb"
    ELSE IF utxo_db THEN (IF opened THEN "Db" ELSE "Rocksdb")
    ELSE IF utxo_redb THEN (IF opened THEN "Redb" ELSE "Redb error")
    ELSE "Mem"

\* the backend of the running process, if any, has taken every block
CaughtUp ==
    /\ mem.open => Len(mem.ret) = Len(chain) \/ mem.panic
    /\ db.open => Len(db.ret) = Len(chain) \/ db.panic
    /\ redb.open => Len(redb.ret) = Len(chain) \/ redb.panic

\* the backend of a process that has ended: the handle is dropped, the
\* store on disk and the record of what was returned stay
Closed(st) == [st EXCEPT !.open = FALSE]

\* a process starts after the one before has ended: the backend is built
\* from its configuration
UtxoManager ==
    /\ CaughtUp
    /\ mem.runs + db.runs + redb.runs < MaxRuns
    /\ \E utxo_db \in BOOLEAN, utxo_redb \in BOOLEAN, opened \in BOOLEAN :
         \E r \in {utxo_manager(utxo_db, utxo_redb, opened)} :
           /\ manager' = [utxo_db |-> utxo_db, utxo_redb |-> utxo_redb, result |-> r]
           /\ db' = IF r = "Db" THEN StoreOpen(db) ELSE Closed(db)
           /\ redb' = IF r = "Redb" THEN StoreOpen(redb) ELSE Closed(redb)
           /\ mem' = IF r = "Mem" THEN MemUtxo_new(mem) ELSE Closed(mem)
    /\ UNCHANGED <<chain, pipeVars>>

\* Reorder releases one more block: a valid block on top of the chain
NewBlock ==
    /\ Len(chain) <= MaxHeight
    /\ CaughtUp
    /\ \E block \in NextBlocks(chain) : chain' = Append(chain, block)
    /\ UNCHANGED <<mem, db, redb, manager, pipeVars>>

\* Fee, with the MemUtxo, takes the next block
MemAdd ==
    /\ mem.open /\ ~mem.panic /\ Len(mem.ret) < Len(chain)
    /\ \E r \in {MemUtxo_add_outputs_get_inputs(mem, chain[Len(mem.ret) + 1])} :
         mem' = IF r.panic THEN [mem EXCEPT !.panic = TRUE]
                ELSE [mem EXCEPT !.trunc = r.m.trunc, !.full = r.m.full,
                                 !.unspendable = r.m.unspendable,
                                 !.ret = Append(mem.ret, r.prevouts)]
    /\ UNCHANGED <<chain, db, redb, manager, pipeVars>>

\* Fee, with the DbUtxo, takes the next block
DbAdd ==
    /\ db.open /\ ~db.panic /\ Len(db.ret) < Len(chain)
    /\ db' = DbUtxo_add_outputs_get_inputs(db, chain[Len(db.ret) + 1], Len(db.ret))
    /\ UNCHANGED <<chain, mem, redb, manager, pipeVars>>

\* Fee, with the RedbUtxo, takes the next block
RedbAdd ==
    /\ redb.open /\ ~redb.panic /\ Len(redb.ret) < Len(chain)
    /\ redb' = RedbUtxo_add_outputs_get_inputs(redb, chain[Len(redb.ret) + 1], Len(redb.ret))
    /\ UNCHANGED <<chain, mem, db, manager, pipeVars>>

NextUtxo ==
    \/ UtxoManager
    \/ NewBlock
    \/ MemAdd
    \/ DbAdd
    \/ RedbAdd

\* the pipeline variables are those of a started run and stay as they are
InitUtxo ==
    /\ cfg = [max_reorg |-> 1, stop_at_height |-> {}, start_at_height |-> 0,
              skip_prevout |-> FALSE, channels_size |-> 0]
    /\ prevOf = LinearTree
    /\ files = <<>>
    /\ UsualDisk
    /\ InitThreads

\* the utxo backends fed the blocks of valid chains, in runs that start from
\* height 0 with the backend utxo_manager builds
UtxoSpec == InitUtxo /\ [][NextUtxo]_vars

\* a u64 sum of u64 values: the wrapped value, and whether an addition
\* overflowed
U64Sum(values) ==
    [value |-> SumSeq(values) % U64Mod, overflow |-> SumSeq(values) >= U64Mod]

\* block.txdata[0].output.iter().map(|el| el.value).sum()
coin_base_output_value(block) ==
    U64Sum([v \in DOMAIN block[1].output |-> block[1].output[v].value]).value

\* mutant of outpoint_values_vec: no entry for the coinbase
outpoint_values_vec_inputs_only(block, prevouts) ==
    IF Len(prevouts) < Len(BlockInputs(block)) THEN <<>>
    ELSE [i \in 1..Len(BlockInputs(block)) |-> <<BlockInputs(block)[i], prevouts[i]>>]

\* the prevouts of a block as Fee attaches them: every input's outpoint
\* with the next element of the returned vector, then the entry of the
\* coinbase; <<>> when prevouts.next().unwrap() panics
outpoint_values_vec(block, prevouts) ==
    IF Len(prevouts) < Len(BlockInputs(block)) THEN <<>>
    ELSE [i \in 1..Len(BlockInputs(block)) |-> <<BlockInputs(block)[i], prevouts[i]>>]
         \o << <<NullOutPoint,
                  [script_pubkey |-> EmptyScript, value |-> coin_base_output_value(block)]>> >>

\* BlockExtra::outpoint_values: the entries as a HashMap, a later entry of
\* the same outpoint replacing an earlier one
outpoint_values(vec) ==
    [o \in {vec[i][1] : i \in DOMAIN vec} |->
        vec[CHOOSE i \in DOMAIN vec :
               vec[i][1] = o /\ \A j \in DOMAIN vec : vec[j][1] = o => j <= i][2]]

\* the previous_output of every input the visitor meets: the null outpoint
\* of the coinbase input, then the inputs of the other transactions
VisitedInputs(block) == <<NullOutPoint>> \o BlockInputs(block)

\* TxFeeVisitor over the block: visit_tx_in adds the value found for the
\* input (unwrap: missing is a panic), visit_tx_out the value of the output
TxFeeVisitor(block, values) ==
    LET ins == VisitedInputs(block)
        outs == BlockOutputs(block)
    IN  [missing |-> \E i \in DOMAIN ins : ins[i] \notin DOMAIN values,
         input_total |-> U64Sum([i \in DOMAIN ins |->
                                   IF ins[i] \in DOMAIN values THEN values[ins[i]].value ELSE 0]),
         output_total |-> U64Sum([i \in DOMAIN outs |-> outs[i].tx_out.value])]

\* BlockExtra::fee with TxFeeVisitor::total: input_total - output_total in
\* u64.  overflow tells that an addition or the subtraction left the range
\* of u64: the build then either panics or goes on with the wrapped value,
\* which is the total given here
fee(block, values) ==
    LET visitor == TxFeeVisitor(block, values)
    IN  [panic |-> visitor.missing,
         overflow |-> \/ visitor.input_total.overflow
                      \/ visitor.output_total.overflow
                      \/ visitor.input_total.value < visitor.output_total.value,
         total |-> (visitor.input_total.value - visitor.output_total.value) % U64Mod]

\* ========================================================= base_reward
MaxEra == 70            \* heights up to MaxEra * 210,000 + 209,999

\* a u64 amount of satoshi in two decimal limbs: hi * Limb + lo
Limb == 100000
Sat(hi, lo) == [hi |-> hi, lo |-> lo]

\* x >> 1
Shr1(x) == Sat(x.hi \div 2, (x.lo + (x.hi % 2) * Limb) \div 2)

RECURSIVE Shr(_, _)
\* x >> n for n < 64
Shr(x, n) ==
    IF n = 0 THEN x ELSE CHOOSE r \in {Shr(y, n - 1) : y \in {Shr1(x)}} : TRUE

\* `>>` on u64 with a u64 shift amount: a shift by 64 or more panics in a
\* build with overflow checks and shifts by n % 64 otherwise
ShrU64(x, n) ==
    IF n < 64 THEN {[panic |-> FALSE, value |-> Shr(x, n)]}
    ELSE {[panic |-> TRUE, value |-> Sat(0, 0)],
          [panic |-> FALSE, value |-> Shr(x, n % 64)]}

\* BlockExtra::base_reward: the outcomes for a height
base_reward(h) ==
    LET initial == Sat(50 * 1000, 0)        \* 50 * 100_000_000
        division == h \div 210000
    IN  ShrU64(initial, division)

Heights == {era * 210000 + offset : era \in 0..MaxEra, offset \in {0, 1, 209999}}

\* the variables no pure function uses
InitRest ==
    /\ cfg = [max_reorg |-> 1, stop_at_height |-> {}, start_at_height |-> 0,
              skip_prevout |-> FALSE, channels_size |-> 0]
    /\ prevOf = LinearTree
    /\ files = <<>>
    /\ first12 = [h \in Hashes |-> h]
    /\ dag_scale = 1
    /\ InitThreads

InitReward ==
    /\ reward \in [pc : {"call"}, height : Heights]
    /\ codec = [pc |-> "idle"]
    /\ scan = [pc |-> "idle"]
    /\ dag = [pc |-> "idle"]
    /\ InitRest

BaseReward ==
    /\ reward.pc = "call"
    /\ \E r \in base_reward(reward.height) :
         reward' = [pc |-> "done", height |-> reward.height,
                    panic |-> r.panic, value |-> r.value]
    /\ UNCHANGED <<codec, scan, dag, utxoVars, onDiskVars, threadVars>>

\* base_reward called on a BlockExtra of any height
RewardSpec == InitReward /\ [][BaseReward]_vars

\* =============================================== BlockExtra serialization
MaxCodecTxs == 2        \* transactions of the encoded block
MaxNext == 3            \* hashes in next
MaxEntries == 2         \* entries of outpoint_values

\* a byte is 0..ByteMod - 1 and a u32 takes U32Len bytes, little endian;
\* a hash, a txid, an outpoint and a transaction take one byte each
ByteMod == 4
U32Len == 2
VarIntMarker == ByteMod - 1     \* 0xFD: the length follows in two bytes

Failed == [ok |-> FALSE, value |-> 0, rest |-> <<>>]
Parsed(value, rest) == [ok |-> TRUE, value |-> value, rest |-> rest]

\* u32::consensus_encode / consensus_decode
EncodeU32(n) == <<n % ByteMod, (n \div ByteMod) % ByteMod>>
DecodeU32(b) ==
    IF Len(b) < U32Len THEN Failed ELSE Parsed(b[1] + ByteMod * b[2], SubSeq(b, 3, Len(b)))

\* VarInt::consensus_encode / consensus_decode: one byte below the marker,
\* the marker and two bytes otherwise; a longer form than needed is rejected
EncodeVarInt(n) == IF n < VarIntMarker THEN <<n>> ELSE <<VarIntMarker>> \o EncodeU32(n)
DecodeVarInt(b) ==
    IF b = <<>> THEN Failed
    ELSE IF b[1] < VarIntMarker THEN Parsed(b[1], Tail(b))
    ELSE IF ~DecodeU32(Tail(b)).ok \/ DecodeU32(Tail(b)).value < VarIntMarker THEN Failed
    ELSE DecodeU32(Tail(b))

\* n items of one byte each
DecodeBytes(b, n) ==
    IF Len(b) < n THEN Failed ELSE Parsed(SubSeq(b, 1, n), SubSeq(b, n + 1, Len(b)))

\* Block: the header, the number of transactions as a VarInt, the
\* transactions
SerializeBlock(block) == <<block.header>> \o EncodeVarInt(Len(block.txdata)) \o block.txdata
DecodeBlock(b) ==
    IF b = <<>> \/ ~DecodeVarInt(Tail(b)).ok THEN Failed
    ELSE LET count == DecodeVarInt(Tail(b))
             txdata == DecodeBytes(count.rest, count.value)
         IN  IF ~txdata.ok THEN Failed
             ELSE Parsed([header |-> b[1], txdata |-> txdata.value], txdata.rest)

\* TxOut: the value, the length of the script as a VarInt, the script
EncodeTxOut(tx_out) ==
    <<tx_out.value>> \o EncodeVarInt(Len(tx_out.script_pubkey)) \o tx_out.script_pubkey
DecodeTxOut(b) ==
    IF b = <<>> \/ ~DecodeVarInt(Tail(b)).ok THEN Failed
    ELSE LET len == DecodeVarInt(Tail(b))
             script == DecodeBytes(len.rest, len.value)
         IN  IF ~script.ok THEN Failed
             ELSE Parsed([value |-> b[1], script_pubkey |-> script.value], script.rest)

RECURSIVE EncodeEntries(_, _)
\* `for (out_point, tx_out) in self.outpoint_values.iter()`, order being
\* the order in which the HashMap yields its keys
EncodeEntries(values, order) ==
    IF order = <<>> THEN <<>>
    ELSE <<Head(order)>> \o EncodeTxOut(values[Head(order)])
           \o EncodeEntries(values, Tail(order))

RECURSIVE DecodeEntries(_, _, _)
\* `for _ in 0..len { m.insert(decode, decode) }`
DecodeEntries(b, n, m) ==
    IF n = 0 THEN Parsed(m, b)
    ELSE IF b = <<>> \/ ~DecodeTxOut(Tail(b)).ok THEN Failed
    ELSE DecodeEntries(DecodeTxOut(Tail(b)).rest, n - 1,
                       MapInsert(m, b[1], DecodeTxOut(Tail(b)).value))

\* mutant of consensus_encode: size is written before the block in both
\* versions
consensus_encode_size_first(be, order) ==
    <<be.version>>
      \o EncodeU32(be.size)
      \o be.block_bytes
      \o <<be.block_hash>>
      \o EncodeVarInt(Len(be.next)) \o be.next
      \o EncodeU32(be.height)
      \o EncodeU32(Len(order)) \o EncodeEntries(be.outpoint_values, order)
      \o EncodeU32(be.block_total_inputs)
      \o EncodeU32(be.block_total_outputs)
      \o EncodeU32(Len(be.txids)) \o be.txids

\* Encodable for BlockExtra
consensus_encode(be, order) ==
    <<be.version>>
      \o (IF be.version = 1 THEN EncodeU32(be.size) ELSE <<>>)
      \o be.block_bytes
      \o <<be.block_hash>>
      \o (IF be.version = 0 THEN EncodeU32(be.size) ELSE <<>>)
      \o EncodeVarInt(Len(be.next)) \o be.next
      \o EncodeU32(be.height)
      \o EncodeU32(Len(order)) \o EncodeEntries(be.outpoint_values, order)
      \o EncodeU32(be.block_total_inputs)
      \o EncodeU32(be.block_total_outputs)
      \o EncodeU32(Len(be.txids)) \o be.txids

\* the first three fields read for version 0: the block is decoded and
\* serialized again, then the hash, then size
DecodeHeadV0(b) ==
    LET block == DecodeBlock(b)
        size == DecodeU32(Tail(block.rest))
    IN  IF ~block.ok \/ block.rest = <<>> \/ ~size.ok THEN Failed
        ELSE Parsed([size |-> size.value, block_bytes |-> SerializeBlock(block.value),
                     block_hash |-> block.rest[1]], size.rest)

\* the first three fields read for version 1: size, that many bytes, then
\* the hash
DecodeHeadV1(b) ==
    LET size == DecodeU32(b)
        block_bytes == DecodeBytes(size.rest, size.value)
    IN  IF ~size.ok \/ ~block_bytes.ok \/ block_bytes.rest = <<>> THEN Failed
        ELSE Parsed([size |-> size.value, block_bytes |-> block_bytes.value,
                     block_hash |-> block_bytes.rest[1]], Tail(block_bytes.rest))

\* the fields after the first three
DecodeTail(version, head, b) ==
    LET next_len == DecodeVarInt(b)
        next_ == DecodeBytes(next_len.rest, next_len.value)
        height_ == DecodeU32(next_.rest)
        len == DecodeU32(height_.rest)
        entries == DecodeEntries(len.rest, len.value, EmptyMap)
        inputs == DecodeU32(entries.rest)
        outputs == DecodeU32(inputs.rest)
        txids_len == DecodeU32(outputs.rest)
        txids == DecodeBytes(txids_len.rest, txids_len.value)
    IN  IF ~next_len.ok \/ ~next_.ok \/ ~height_.ok \/ ~len.ok \/ ~entries.ok
           \/ ~inputs.ok \/ ~outputs.ok \/ ~txids_len.ok \/ ~txids.ok
        THEN Failed
        ELSE Parsed([version |-> version,
                     block_bytes |-> head.block_bytes,
                     block_hash |-> head.block_hash,
                     size |-> head.size,
                     next |-> next_.value,
                     height |-> height_.value,
                     outpoint_values |-> entries.value,
                     block_total_inputs |-> inputs.value,
                     block_total_outputs |-> outputs.value,
                     txids |-> txids.value,
                     block_total_txs |-> Len(txids.value)],
                    txids.rest)

\* Decodable for BlockExtra
consensus_decode(b) ==
    IF b = <<>> \/ b[1] \notin {0, 1} THEN Failed
    ELSE LET head == IF b[1] = 0 THEN DecodeHeadV0(Tail(b)) ELSE DecodeHeadV1(Tail(b))
         IN  IF ~head.ok THEN Failed ELSE DecodeTail(b[1], head.value, head.rest)

\* the serialized blocks, and the BlockExtra the program builds on them:
\* size is the length of block_bytes (TryFrom<FsBlock>) and block_total_txs
\* the length of txids (compute_txids, consensus_decode)
CodecBlocks ==
    {SerializeBlock([header |-> header, txdata |-> txdata]) :
        header \in {0, VarIntMarker},
        txdata \in UNION {[1..n -> {1, VarIntMarker}] : n \in 0..MaxCodecTxs}}

CodecTxOuts == {[value |-> 2, script_pubkey |-> <<>>], [value |-> 1, script_pubkey |-> <<VarIntMarker, 0, 1>>]}

CodecBlockExtras ==
    {[version |-> version,
      block_bytes |-> block_bytes,
      block_hash |-> block_hash,
      size |-> Len(block_bytes),
      next |-> next_,
      height |-> height_,
      outpoint_values |-> values,
      block_total_inputs |-> inputs,
      block_total_outputs |-> 2,
      txids |-> txids,
      block_total_txs |-> Len(txids)] :
        version \in {0, 1},
        block_bytes \in CodecBlocks,
        block_hash \in {0, VarIntMarker},
        next_ \in {[i \in 1..n |-> i] : n \in 0..MaxNext},
        height_ \in {0, 5},
        values \in UNION {[1..n -> CodecTxOuts] : n \in 0..MaxEntries},
        inputs \in {0, 1},
        txids \in {[i \in 1..n |-> i] : n \in {0, MaxCodecTxs}}}

\* the orders in which a HashMap may yield its keys
KeyOrders(m) ==
    {order \in [1..Cardinality(DOMAIN m) -> DOMAIN m] :
        \A i, j \in DOMAIN order : i /= j => order[i] /= order[j]}

InitCodec ==
    /\ codec \in [pc : {"new"}, be : CodecBlockExtras]
    /\ reward = [pc |-> "idle"]
    /\ scan = [pc |-> "idle"]
    /\ dag = [pc |-> "idle"]
    /\ InitRest

\* serialize(&be)
Serialize ==
    /\ codec.pc = "new"
    /\ \E order \in KeyOrders(codec.be.outpoint_values) :
         codec' = [pc |-> "encoded", be |-> codec.be,
                   bytes |-> consensus_encode(codec.be, order)]
    /\ UNCHANGED <<reward, scan, dag, utxoVars, onDiskVars, threadVars>>

\* deserialize(&ser): consensus_decode, and nothing may be left over
Deserialize ==
    /\ codec.pc = "encoded"
    /\ \E r \in {consensus_decode(codec.bytes)} :
         codec' = [pc |-> "decoded", be |-> codec.be, bytes |-> codec.bytes,
                   ok |-> r.ok /\ r.rest = <<>>, value |-> r.value]
    /\ UNCHANGED <<reward, scan, dag, utxoVars, onDiskVars, threadVars>>

NextCodec ==
    \/ Serialize
    \/ Deserialize

\* a BlockExtra is serialized and deserialized
CodecSpec == InitCodec /\ [][NextCodec]_vars

\* ====================================================== detect on the bytes
MaxScanLen == 7         \* bytes in a block file

\* the file is a sequence of bytes 0..ByteMod - 1; the magic takes MagicLen
\* bytes and the length field SizeLen byte
Magic == <<2, 3>>
MagicLen == Len(Magic)
SizeLen == 1

\* RollingU32::push: the last MagicLen bytes
RollingPush(rolling, byte) == Append(Tail(rolling), byte)

\* BlockHash of a header, and its prev_blockhash
HeaderHash(header) == header + 1
HeaderPrev(header) == header

\* a transaction takes one byte; the byte 0 is not a transaction
IsTx(byte) == byte /= 0

\* bsl::Block::parse: the header, the number of transactions, the
\* transactions; consumed is the number of bytes of the block
BlockParse(b) ==
    IF Len(b) < 2 \/ Len(b) < 2 + b[2] THEN [ok |-> FALSE]
    ELSE IF \E i \in 3..(2 + b[2]) : ~IsTx(b[i]) THEN [ok |-> FALSE]
    ELSE [ok |-> TRUE, consumed |-> 2 + b[2], header |-> b[1],
          remaining |-> SubSeq(b, 3 + b[2], Len(b))]

ScanFiles == UNION {[1..n -> 0..(ByteMod - 1)] : n \in 0..MaxScanLen}

InitScan ==
    /\ scan \in {[pc |-> "scan", buffer |-> buffer, pointer |-> 0, current |-> buffer,
                  rolling |-> [i \in 1..MagicLen |-> 0], detected_blocks |-> <<>>,
                  rejected |-> 0] : buffer \in ScanFiles}
    /\ codec = [pc |-> "idle"]
    /\ reward = [pc |-> "idle"]
    /\ dag = [pc |-> "idle"]
    /\ InitRest

\* `while let Ok(byte) = U8::parse(current)` fails: detect returns the
\* blocks
DetectReturns ==
    /\ scan.pc = "scan"
    /\ scan.current = <<>>
    /\ scan' = [scan EXCEPT !.pc = "detected"]
    /\ UNCHANGED <<codec, reward, dag, utxoVars, onDiskVars, threadVars>>

\* one pass of the loop where the last bytes are not the magic
DetectByte ==
    /\ scan.pc = "scan"
    /\ scan.current /= <<>>
    /\ RollingPush(scan.rolling, Head(scan.current)) /= Magic
    /\ scan' = [scan EXCEPT !.pointer = @ + 1, !.current = Tail(@),
                            !.rolling = RollingPush(@, Head(scan.current))]
    /\ UNCHANGED <<codec, reward, dag, utxoVars, onDiskVars, threadVars>>

\* one pass of the loop at a magic: `U32::parse(current)?` returns the error
\* of a missing length field, which ReadDetect unwraps; otherwise the block
\* is parsed and, if its length is the declared one, pushed
DetectMagic ==
    /\ scan.pc = "scan"
    /\ scan.current /= <<>>
    /\ RollingPush(scan.rolling, Head(scan.current)) = Magic
    /\ LET current == Tail(scan.current)
           size == current[1]
           remaining == SubSeq(current, SizeLen + 1, Len(current))
           start == scan.pointer + 1 + SizeLen
           block == BlockParse(remaining)
           end == start + block.consumed
       IN  IF Len(current) < SizeLen
           THEN scan' = [scan EXCEPT !.pc = "panicked", !.pointer = @ + 1,
                                     !.current = current, !.rolling = Magic]
           ELSE IF ~block.ok
           THEN scan' = [scan EXCEPT !.pointer = start, !.current = current,
                                     !.rolling = Magic, !.rejected = @ + 1]
           ELSE IF size /= end - start
           THEN scan' = [scan EXCEPT !.pointer = end, !.current = block.remaining,
                                     !.rolling = Magic, !.rejected = @ + 1]
           ELSE scan' = [scan EXCEPT !.pointer = end, !.current = block.remaining,
                                     !.rolling = Magic,
                                     !.detected_blocks =
                                         Append(@, [start |-> start, end |-> end,
                                                    hash |-> HeaderHash(block.header),
                                                    prev |-> HeaderPrev(block.header)])]
    /\ UNCHANGED <<codec, reward, dag, utxoVars, onDiskVars, threadVars>>

NextScan ==
    \/ DetectReturns
    \/ DetectByte
    \/ DetectMagic

\* detect on the bytes of one block file
ScanSpec == InitScan /\ [][NextScan]_vars

\* ============================================ loading the detected blocks
\* detect on the bytes of a block file, then the blocks read back from the
\* file, which may have been written to or cut in between: file is what
\* the disk holds, loaded the number of blocks taken, emitted the BlockExtra
\* built from them
InitLoad ==
    /\ scan \in {[pc |-> "scan", buffer |-> buffer, pointer |-> 0, current |-> buffer,
                  rolling |-> [i \in 1..MagicLen |-> 0], detected_blocks |-> <<>>,
                  rejected |-> 0, file |-> buffer, loaded |-> 0, emitted |-> <<>>] :
                 buffer \in ScanFiles}
    /\ codec = [pc |-> "idle"]
    /\ reward = [pc |-> "idle"]
    /\ dag = [pc |-> "idle"]
    /\ InitRest

\* the node, or a crash of it, leaves other bytes where a detected block
\* was, once, after the scan
TornWrite ==
    /\ scan.pc = "detected"
    /\ scan.file = scan.buffer
    /\ \E k \in DOMAIN scan.detected_blocks, byte \in 0..(ByteMod - 1) :
         \E i \in (scan.detected_blocks[k].start + 1)..scan.detected_blocks[k].end :
           /\ i <= Len(scan.file)
           /\ scan.file[i] /= byte
           /\ scan' = [scan EXCEPT !.file = [@ EXCEPT ![i] = byte]]
    /\ UNCHANGED <<codec, reward, dag, utxoVars, onDiskVars, threadVars>>

\* the file is cut short, once, after the scan
Truncated ==
    /\ scan.pc = "detected"
    /\ scan.file = scan.buffer
    /\ scan.detected_blocks /= <<>>
    /\ \E n \in 0..(Len(scan.file) - 1) : scan' = [scan EXCEPT !.file = SubSeq(@, 1, n)]
    /\ UNCHANGED <<codec, reward, dag, utxoVars, onDiskVars, threadVars>>

\* TryFrom<FsBlock> for BlockExtra: seek to start, read_exact end - start
\* bytes (an error at the end of the file), block_hash copied from the
\* FsBlock
try_from(file, fs_block) ==
    IF fs_block.end > Len(file) THEN [ok |-> FALSE, value |-> <<>>]
    ELSE [ok |-> TRUE,
          value |-> <<[block_hash |-> fs_block.hash,
                       block_bytes |-> SubSeq(file, fs_block.start + 1, fs_block.end)]>>]

\* `block_to_send.try_into().unwrap()` in Reorder for the next block
TryIntoUnwrap ==
    /\ scan.pc = "detected"
    /\ scan.loaded < Len(scan.detected_blocks)
    /\ \E r \in {try_from(scan.file, scan.detected_blocks[scan.loaded + 1])} :
         scan' = IF r.ok
                 THEN [scan EXCEPT !.loaded = @ + 1, !.emitted = Append(@, r.value[1])]
                 ELSE [scan EXCEPT !.pc = "panicked"]
    /\ UNCHANGED <<codec, reward, dag, utxoVars, onDiskVars, threadVars>>

NextLoad ==
    \/ NextScan
    \/ TornWrite
    \/ Truncated
    \/ TryIntoUnwrap

LoadSpec == InitLoad /\ [][NextLoad]_vars

\* ======================================================== TruncMap alone
MaxTruncTxs == 6        \* transactions whose first output is inserted

\* the outpoints inserted, one per transaction, and the TxOut of each: the
\* script classes change from one transaction to the next
TruncOutPoints == {OutPoint(t, 0) : t \in 1..MaxTruncTxs}
TruncTxOut(outpoint) ==
    NewTxOut(<<"p2pkh", "other", "p2sh", "p2wpkh">>[(outpoint.txid % 4) + 1],
             outpoint.txid, outpoint.vout, OutId(outpoint))

\* MemUtxo::new, with the history of the map: inserted = the TxOut given to
\* insert for every outpoint inserted and not removed since, removed = the
\* outpoint given to the last remove and what it returned
TruncMapNew ==
    /\ ~mem.open
    /\ mem' = [open |-> TRUE, runs |-> mem.runs + 1, panic |-> FALSE,
               trunc |-> MemUtxo_new(mem).trunc, full |-> MemUtxo_new(mem).full,
               unspendable |-> 0, ret |-> <<>>, inserted |-> EmptyMap, removed |-> <<>>]
    /\ UNCHANGED <<chain, db, redb, manager, pipeVars>>

\* self.map.insert(outpoint, output) for an outpoint not in the map
TruncInsert ==
    /\ mem.open
    /\ \E outpoint \in TruncOutPoints \ DOMAIN mem.inserted :
         \E m \in {TruncMap_insert(mem, outpoint, TruncTxOut(outpoint))} :
           mem' = [mem EXCEPT !.trunc = m.trunc, !.full = m.full,
                              !.inserted = MapInsert(@, outpoint, TruncTxOut(outpoint))]
    /\ UNCHANGED <<chain, db, redb, manager, pipeVars>>

\* self.map.remove(&outpoint) for an outpoint in the map
TruncRemove ==
    /\ mem.open
    /\ \E outpoint \in DOMAIN mem.inserted :
         \E r \in {TruncMap_remove(mem, outpoint)} :
           mem' = [mem EXCEPT !.trunc = r.m.trunc, !.full = r.m.full,
                              !.inserted = MapRemove(@, outpoint),
                              !.removed = <<outpoint, r.val>>]
    /\ UNCHANGED <<chain, db, redb, manager, pipeVars>>

NextTrunc ==
    \/ TruncMapNew
    \/ TruncInsert
    \/ TruncRemove

TruncSpec == InitUtxo /\ [][NextTrunc]_vars

\* ======================================== hashes sharing their first 12 bytes
\* two blocks of the chain have hashes with the same first 12 bytes; the
\* blocks are laid out in files in any order, each once
InitCollide ==
    /\ cfg \in [max_reorg : 1..MaxReorg, stop_at_height : StopChoices,
                start_at_height : {0}, skip_prevout : BOOLEAN,
                channels_size : {0}]
    /\ prevOf = LinearTree
    /\ \E s \in InjSeqs : files = Chunks(s, MaxFileLen)
    /\ \E a, b \in Hashes :
         /\ a < b
         /\ first12 = [h \in Hashes |-> IF h = b THEN a ELSE h]
    /\ dag_scale = 1
    /\ InitPure
    /\ InitThreads

CollideSpec == InitCollide /\ [][Next]_vars

\* ================================================= the limit of the DAG
\* one block of the model stands for DagScale blocks of the program, so that
\* the map is full with max_block_to_reorder / DagScale blocks
DagScale == 5000

\* a tree of blocks laid out in files in any order, so that blocks wait in
\* the map for the blocks they extend or for followers
InitDag ==
    /\ cfg \in [max_reorg : 1..MaxReorg, stop_at_height : {{}, {0}},
                start_at_height : {0}, skip_prevout : BOOLEAN,
                channels_size : {0}]
    /\ prevOf \in Trees
    /\ \E s \in InjSeqs : files = Chunks(s, MaxFileLen)
    /\ first12 = [h \in Hashes |-> h]
    /\ dag_scale = DagScale
    /\ InitPure
    /\ InitThreads

DagSpec == InitDag /\ [][Next]_vars

\* ==================================================== OutOfOrderBlocks alone
\* the map of Reorder driven block by block: a tree of blocks, each block
\* added once, in any order, and the release loop run between the additions
InitOoo ==
    /\ cfg \in [max_reorg : 0..MaxReorg, stop_at_height : {{}},
                start_at_height : {0}, skip_prevout : {FALSE},
                channels_size : {0}]
    /\ prevOf \in Trees
    /\ files = <<>>
    /\ first12 = [h \in Hashes |-> h]
    /\ dag_scale = 1
    /\ InitThreads
    /\ codec = [pc |-> "idle"]
    /\ reward = [pc |-> "idle"]
    /\ scan = [pc |-> "idle"]
    /\ dag = [pc |-> "run", blocks |-> EmptyMap, follows |-> EmptyMap, next |-> Genesis,
              height |-> 0, arrived |-> <<>>, sent |-> <<>>]

\* blocks.add(raw_block) for a block that has not arrived yet; the while
\* loop of the block before has run until blocks.remove gave None
OooAdd ==
    /\ dag.pc = "run"
    /\ \E t \in {TryRelease([blocks |-> dag.blocks, follows |-> dag.follows,
                             next |-> dag.next, batch |-> <<>>],
                            cfg.max_reorg, dag.height)} :
         dag.arrived = <<>> \/ (~t.panic /\ t.pending = <<>>)
    /\ \E hash \in Hashes \ {dag.arrived[i] : i \in 1..Len(dag.arrived)} :
         \E a \in {add(dag.blocks, dag.follows, into_fs_block(hash))} :
           dag' = [dag EXCEPT !.blocks = a.blocks, !.follows = a.follows,
                              !.arrived = Append(@, hash)]
    /\ UNCHANGED <<codec, reward, scan, utxoVars, onDiskVars, threadVars>>

\* one pass of `while let Some(block_to_send) = blocks.remove(&next)` in
\* which a block comes out: it is stamped, taken from follows, its parent
\* is taken from the map and it is sent
OooRelease ==
    /\ dag.pc = "run"
    /\ \E t \in {TryRelease([blocks |-> dag.blocks, follows |-> dag.follows,
                             next |-> dag.next, batch |-> <<>>],
                            cfg.max_reorg, dag.height)} :
         /\ ~t.panic /\ t.pending /= <<>>
         /\ dag' = [dag EXCEPT !.blocks = t.blocks, !.follows = t.follows,
                               !.next = t.next, !.height = @ + 1,
                               !.sent = Append(@, t.pending[1])]
    /\ UNCHANGED <<codec, reward, scan, utxoVars, onDiskVars, threadVars>>

\* blocks.remove(&next) panics
OooPanic ==
    /\ dag.pc = "run"
    /\ dag.arrived /= <<>>
    /\ TryRelease([blocks |-> dag.blocks, follows |-> dag.follows,
                   next |-> dag.next, batch |-> <<>>], cfg.max_reorg, dag.height).panic
    /\ dag' = [dag EXCEPT !.pc = "panicked"]
    /\ UNCHANGED <<codec, reward, scan, utxoVars, onDiskVars, threadVars>>

NextOoo ==
    \/ OooAdd
    \/ OooRelease
    \/ OooPanic

OooSpec == InitOoo /\ [][NextOoo]_vars

\* ============================================================ properties
RECURSIVE Concat(_)
Concat(ss) == IF ss = <<>> THEN <<>> ELSE Head(ss) \o Concat(Tail(ss))

\* every block occurrence on disk, in the order ReadDetect meets them
ArrivalSeq == Concat(files)
OnDisk == {ArrivalSeq[i] : i \in 1..Len(ArrivalSeq)}
Children(h) == {c \in OnDisk : prevOf[c] = h}
FirstPos(h) == CHOOSE i \in 1..Len(ArrivalSeq) :
                  ArrivalSeq[i] = h /\ \A j \in 1..(i - 1) : ArrivalSeq[j] /= h
SetMax(S) == CHOOSE x \in S : \A y \in S : y <= x
HashesOf(seq) == {seq[i].hash : i \in 1..Len(seq)}
AllRead == rd_idx > Len(files)

RECURSIVE HeightOf(_)
\* height of a block on disk that connects to the genesis block, else -1
HeightOf(h) ==
    IF h \notin OnDisk THEN -1
    ELSE IF h = Genesis THEN 0
    ELSE LET p == HeightOf(prevOf[h]) IN IF p < 0 THEN -1 ELSE p + 1

RECURSIVE SubDepth(_)
\* length of the longest chain of descendants of h on disk
SubDepth(h) ==
    IF Children(h) = {} THEN 0
    ELSE 1 + SetMax({SubDepth(c) : c \in Children(h)})

\* C1: for consecutive delivered blocks A, B: A.next = [B.hash] and B's
\* header previous-block hash is A.hash; every delivered block carries
\* exactly one successor hash
C1_Order ==
    \A i \in 1..Len(delivered) :
        /\ Len(delivered[i].next) = 1
        /\ i < Len(delivered) =>
              /\ delivered[i].next = <<delivered[i + 1].hash>>
              /\ prevOf[delivered[i + 1].hash] = delivered[i].hash

\* blocks were delivered in a run where a delivered block had two children
\* on disk and a delivered block had arrived before its delivered parent
C1_Witness ==
    /\ Len(delivered) >= 2
    /\ \E i \in 1..Len(delivered) : Cardinality(Children(delivered[i].hash)) >= 2
    /\ \E i \in 1..(Len(delivered) - 1) :
          FirstPos(delivered[i + 1].hash) < FirstPos(delivered[i].hash)

\* C2: the heights stamped on the released blocks are 0, 1, 2, ... and the
\* first released block is the genesis block
C2_Heights ==
    /\ \A i \in 1..Len(released) : released[i].height = i - 1
    /\ released /= <<>> => released[1].hash = Genesis
    /\ height = Len(released)

C2_Witness == Len(released) >= 3 /\ released[3].height = 2

\* the blocks ReadDetect has handed on and Reorder has not yet added
InFlight ==
    [i \in 1..Len(rd_batch) |-> rd_batch[i].hash]
    \o Concat([i \in 1..Len(chan1) |->
                 IF chan1[i] = None THEN <<>>
                 ELSE [j \in 1..Len(chan1[i][1]) |-> chan1[i][1][j].hash]])
    \o [i \in 1..Len(ro_batch) |-> ro_batch[i].hash]

NoRepeat(seq) == \A i, j \in 1..Len(seq) : i /= j => seq[i] /= seq[j]

\* C3: no block hash is delivered twice; a block that is on disk more than
\* once is dropped by ReadDetect, so no hash reaches Reorder a second time
C3_NoDuplicates ==
    /\ NoRepeat([i \in 1..Len(delivered) |-> delivered[i].hash])
    /\ NoRepeat(InFlight)
    /\ \A i \in 1..Len(InFlight) :
          InFlight[i] \notin (DOMAIN blocks) \cup HashesOf(released) \cup HashesOf(ro_pending)

\* every file was read, a block written in two files was delivered and so
\* was a block written twice in one file
C3_Witness ==
    /\ AllRead
    /\ \E h \in HashesOf(delivered) : \E i, j \in 1..Len(files) :
          /\ i /= j
          /\ \E k \in 1..Len(files[i]) : files[i][k] = h
          /\ \E k \in 1..Len(files[j]) : files[j][k] = h

\* T: the height of the highest block on disk that connects to the genesis
TopHeight == SetMax({HeightOf(h) : h \in OnDisk} \cup {-1})
DeliveredHeights == {delivered[i].height : i \in 1..Len(delivered)}
ReleasedHeights == {released[i].height : i \in 1..Len(released)}
ExpectedHeights ==
    {h \in 0..(TopHeight - cfg.max_reorg) : h >= cfg.start_at_height}

NoDeepStaleBranch ==
    \A c \in OnDisk :
        (HeightOf(c) >= 1 /\ 1 + SubDepth(c) >= cfg.max_reorg) =>
            HeightOf(c) + SubDepth(c) = TopHeight

RECURSIVE ChainFrom(_, _, _)
\* the map b holds a chain of k successive descendants of h, read off the
\* previous-block hashes of the blocks it holds
ChainFrom(h, b, k) ==
    k = 0 \/ \E c \in DOMAIN b : b[c].prev = h /\ ChainFrom(c, b, k - 1)

\* C5: a block is released only with a chain of max_reorg descendants in
\* the DAG, and while Reorder waits for input (not stopped early) a
\* candidate that is in the DAG has no such chain: it stays, nothing is sent
C5_ReleaseRule ==
    /\ ro_pc = "send" => ChainFrom(ro_pending[1].hash, blocks, cfg.max_reorg)
    /\ (ro_pc \in {"recv", "sendNone", "done"} /\ ~early_stop /\ next \in DOMAIN blocks) =>
          ~ChainFrom(next, blocks, cfg.max_reorg)

\* after a release the new candidate sits in the DAG with a follower but
\* with a chain shorter than max_reorg
C5_Witness ==
    /\ ro_pc = "recv" /\ ~early_stop /\ released /= <<>>
    /\ next \in DOMAIN blocks
    /\ blocks[next].next /= <<>>
    /\ ~ChainFrom(next, blocks, cfg.max_reorg)

RECURSIVE OnShortFork(_)
\* b lies on a branch that leaves a fork point (a block with two children
\* on disk) and whose longest chain has fewer than max_reorg blocks
OnShortFork(b) ==
    /\ b \in OnDisk
    /\ b /= Genesis
    /\ \/ Cardinality(Children(prevOf[b])) >= 2 /\ 1 + SubDepth(b) < cfg.max_reorg
       \/ OnShortFork(prevOf[b])

\* C6: no block of a fork branch shorter than max_reorg is ever released
C6_ShortForkNeverEmitted ==
    \A i \in 1..Len(released) : ~OnShortFork(released[i].hash)

\* every file was read, the fork point was released, and the short branch
\* had arrived before the branch that was followed
C6_Witness ==
    /\ AllRead
    /\ \E b \in OnDisk :
          /\ OnShortFork(b)
          /\ prevOf[b] \in HashesOf(released)
          /\ \A d \in Children(prevOf[b]) \ {b} : FirstPos(b) < FirstPos(d)

\* every thread of the pipeline has ended and the iterator returned None
Terminated ==
    /\ rd_pc = "done" /\ ro_pc = "done" /\ tx_pc = "done"
    /\ fee_pc \in {"done", "absent"}
    /\ pl_pc = "done"
    /\ it_pc = "done" /\ eos = 1

C7_NoneAboveStop ==
    \A s \in cfg.stop_at_height :
        /\ \A i \in 1..Len(released) : released[i].height <= s
        /\ (it_pc = "done" /\ Len(released) = s + 1 /\ s >= cfg.start_at_height) =>
              (delivered /= <<>> /\ delivered[Len(delivered)].height = s)

C7_StopReached == \E s \in cfg.stop_at_height : Len(released) = s + 1

\* C7: with stop_at_height = S no block above height S is released, the
\* block of height S is the last one delivered, and once it has been
\* released the pipeline terminates with end-of-stream
C7_StopAtHeight == [](C7_NoneAboveStop) /\ (C7_StopReached ~> Terminated)

\* the run ended on the block of height S = 1 while ReadDetect left files
\* unread and the chain on disk would have allowed a further release
C7_Witness ==
    /\ Terminated
    /\ cfg.stop_at_height = {1}
    /\ delivered /= <<>> /\ delivered[Len(delivered)].height = 1
    /\ TopHeight - cfg.max_reorg > 1

\* C8: the consumer gets no block below start_at_height and the first one
\* it gets has exactly that height, while add_outputs_get_inputs is applied
\* to the released blocks of heights 0, 1, 2, ... in order, each before it
\* is delivered, and to all of them by the time Fee ends
C8_StartAtHeight ==
    /\ \A i \in 1..Len(delivered) : delivered[i].height >= cfg.start_at_height
    /\ delivered /= <<>> => delivered[1].height = cfg.start_at_height
    /\ ~cfg.skip_prevout =>
          /\ \A i \in 1..Len(utxo) : utxo[i] = i - 1
          /\ Len(utxo) <= Len(released)
          /\ \A i \in 1..Len(delivered) : delivered[i].height < Len(utxo)
          /\ fee_pc \in {"sendNone", "done"} => Len(utxo) = Len(released)

\* with start_at_height = 2 and prevouts computed, the first block arrived
\* at the consumer after the blocks of heights 0 and 1 went through the utxo
C8_Witness ==
    /\ ~cfg.skip_prevout /\ cfg.start_at_height = 2
    /\ delivered /= <<>> /\ delivered[1].height = 2
    /\ Len(utxo) >= 3 /\ utxo[1] = 0 /\ utxo[2] = 1

\* ---- the stream computed without threads and without ComputeTxids / Fee
RECURSIVE RefDrain(_, _, _)
\* follow the releases of one batch: t is an outcome of the loop operators
RefDrain(t, h, out) ==
    IF t.pending = <<>>
    THEN [st |-> t, h |-> h, out |-> out, stopped |-> FALSE]
    ELSE LET out1 == Append(out, <<h, t.pending[1].hash>>)
         IN  IF ReachedStop(cfg.stop_at_height, h + 1)
             THEN [st |-> t, h |-> h + 1, out |-> out1, stopped |-> TRUE]
             ELSE RefDrain(ContinueRelease(t, cfg.max_reorg, h + 1), h + 1, out1)

RECURSIVE RefFiles(_, _, _, _, _)
RefFiles(i, s, st, h, out) ==
    IF i > Len(files) THEN out
    ELSE LET r == FilterSeen(files[i], s)
             batch == [k \in 1..Len(r[1]) |-> into_fs_block(r[1][k])]
             d == RefDrain(ForRawBlocks([blocks |-> st.blocks, follows |-> st.follows,
                                         next |-> st.next, batch |-> batch],
                                        cfg.max_reorg, h), h, out)
         IN  IF d.stopped THEN d.out
             ELSE RefFiles(i + 1, r[2], d.st, d.h, d.out)

\* <<height, hash>> of the blocks at or above start_at_height, a function of
\* the files, max_reorg, stop_at_height and start_at_height only
RefStream ==
    SelectSeq(RefFiles(1, {}, [blocks |-> EmptyMap, follows |-> EmptyMap,
                               next |-> Genesis], 0, <<>>),
              LAMBDA e : e[1] >= cfg.start_at_height)

\* C9: the delivered <<height, hash>> sequence is the one determined by the
\* input, start_at_height and stop_at_height alone, with skip_prevout and
\* without; with skip_prevout Fee does not exist, the utxo is never touched
\* and no delivered block carries prevouts
C9_SkipPrevoutSameStream ==
    /\ it_pc = "done" =>
          [i \in 1..Len(delivered) |-> <<delivered[i].height, delivered[i].hash>>] = RefStream
    /\ cfg.skip_prevout =>
          /\ fee_pc = "absent" /\ utxo = <<>> /\ chan3 = <<>>
          /\ \A i \in 1..Len(delivered) : ~delivered[i].prevouts

\* a run with skip_prevout ended after delivering blocks from
\* start_at_height = 1 up to stop_at_height = 2
C9_Witness ==
    /\ it_pc = "done" /\ cfg.skip_prevout
    /\ cfg.start_at_height = 1 /\ cfg.stop_at_height = {2}
    /\ Len(delivered) = 2

C10_SentinelLast ==
    /\ eos <= 1
    /\ \A i \in 1..(Len(chanOut) - 1) : chanOut[i] /= None
    /\ it_pc = "done" =>
          /\ eos = 1
          /\ chanOut = <<>> /\ chan2 = <<>> /\ chan3 = <<>>
          /\ tx_pc = "done" /\ fee_pc \in {"done", "absent"}
          /\ tx_pending = <<>> /\ fee_pending = <<>>

\* C10: the consumer receives None exactly once: it does receive it, after
\* every block, and nothing is sent to it afterwards; with and without
\* skip_prevout
C10_EndOfStream == [](C10_SentinelLast) /\ <>(it_pc = "done")

\* the sentinel arrived after blocks had been delivered through Fee
C10_Witness ==
    /\ it_pc = "done" /\ eos = 1 /\ ~cfg.skip_prevout
    /\ Len(delivered) >= 2

C11_JoinedBeforeNone ==
    it_pc = "done" =>
        /\ pl_pc = "done"
        /\ rd_pc = "done" /\ ro_pc = "done" /\ tx_pc = "done"
        /\ fee_pc \in {"done", "absent"}

\* a stage that leaves its loop sends None to the next stage and returns
C11_NoneForwarded ==
    /\ (ro_pc = "sendNone" /\ ro_pc' /= "sendNone") =>
          (ro_pc' = "done" /\ chan2' = Append(chan2, None))
    /\ (tx_pc = "sendNone" /\ tx_pc' /= "sendNone") =>
          /\ tx_pc' = "done"
          /\ IF cfg.skip_prevout THEN chanOut' = Append(chanOut, None)
                                 ELSE chan3' = Append(chan3, None)
    /\ (fee_pc = "sendNone" /\ fee_pc' /= "sendNone") =>
          (fee_pc' = "done" /\ chanOut' = Append(chanOut, None))
    /\ (rd_pc = "sendNone" /\ rd_pc' /= "sendNone") =>
          (rd_pc' = "done" /\ chan1' = Append(chan1, None))

\* C11: with a consumer that keeps receiving, for every channel capacity
\* and every number of block files, every stage that got None sends None on
\* and returns, all threads end, and next() returns its final None only
\* after the iterate() thread, which joined every stage thread, was joined
C11_AllThreadsTerminate ==
    /\ [](C11_JoinedBeforeNone)
    /\ [][C11_NoneForwarded]_vars
    /\ <>Terminated

\* a run over a directory without block files, rendezvous channels and all
\* four stages, ended with every thread joined
C11_Witness ==
    /\ Terminated
    /\ files = <<>> /\ cfg.channels_size = 0 /\ ~cfg.skip_prevout

StageExits(pc_before, pc_after) == ~Ended(pc_before) /\ Ended(pc_after)

\* the channel a stage sends to: <<before, after>>
TxidsOut == IF TxidsToConsumer THEN <<chanOut, chanOut'>> ELSE <<chan3, chan3'>>

\* the claim as stated: whenever a stage thread ends, by returning or by
\* panicking, that step sends None downstream
C12_Original ==
    [][ /\ StageExits(rd_pc, rd_pc') => chan1' = Append(chan1, None)
        /\ StageExits(ro_pc, ro_pc') => chan2' = Append(chan2, None)
        /\ StageExits(tx_pc, tx_pc') => TxidsOut[2] = Append(TxidsOut[1], None)
        /\ StageExits(fee_pc, fee_pc') => chanOut' = Append(chanOut, None) ]_vars

\* a stage returns by sending None, except ReadDetect after an early stop
C12_NoneOnReturn ==
    /\ (rd_pc /= "done" /\ rd_pc' = "done") =>
          \/ chan1' = Append(chan1, None)
          \/ early_stop /\ chan1' = chan1
    /\ (ro_pc /= "done" /\ ro_pc' = "done") => chan2' = Append(chan2, None)
    /\ (tx_pc /= "done" /\ tx_pc' = "done") => TxidsOut[2] = Append(TxidsOut[1], None)
    /\ (fee_pc /= "done" /\ fee_pc' = "done") => chanOut' = Append(chanOut, None)

\* a stage that panics sends nothing
C12_NothingOnPanic ==
    /\ (rd_pc /= "panicked" /\ rd_pc' = "panicked") => chan1' = chan1
    /\ (ro_pc /= "panicked" /\ ro_pc' = "panicked") => chan2' = chan2
    /\ (tx_pc /= "panicked" /\ tx_pc' = "panicked") => TxidsOut[2] = TxidsOut[1]
    /\ (fee_pc /= "panicked" /\ fee_pc' = "panicked") => chanOut' = chanOut

\* what the next thread makes of a closed channel: Reorder goes on to send
\* None, ComputeTxids and Fee panic, next() goes on to join the handle
\* (unless the step is the abort of the process)
C12_ClosedChannel ==
    \/ aborted'
    \/ /\ (ro_pc = "recv" /\ chan1 = <<>> /\ ro_pc' /= ro_pc) => ro_pc' = "sendNone"
       /\ (tx_pc = "recv" /\ chan2 = <<>> /\ tx_pc' /= tx_pc) => tx_pc' = "panicked"
       /\ (fee_pc = "recv" /\ chan3 = <<>> /\ fee_pc' /= fee_pc) => fee_pc' = "panicked"
       /\ (it_pc = "recv" /\ chanOut = <<>> /\ it_pc' /= it_pc) => it_pc' = "join"

\* C12 (amended): a stage sends None downstream when it returns, after the
\* end of its input or after an early stop, except ReadDetect, which
\* returns without None once early_stop is set; a stage that panics sends
\* nothing and its channel ends are closed, which Reorder takes as None,
\* ComputeTxids and Fee as a failure of their own, and next() as the end
C12_NoneOnNormalExit ==
    [][C12_NoneOnReturn /\ C12_NothingOnPanic /\ C12_ClosedChannel]_vars

\* ReadDetect returned after an early stop and Fee panicked on a block
C12_Witness ==
    /\ early_stop /\ rd_pc = "done" /\ ro_pc = "done"
    /\ \A i \in 1..Len(chan1) : chan1[i] /= None
    /\ fee_pc = "panicked"

SomeStagePanicked == "panicked" \in {rd_pc, ro_pc, tx_pc, fee_pc}

\* every thread has returned or panicked, or the process has aborted
AllThreadsEnded ==
    \/ aborted
    \/ /\ Ended(rd_pc) /\ Ended(ro_pc) /\ Ended(tx_pc)
       /\ fee_pc \in {"done", "panicked", "absent"}
       /\ Ended(pl_pc) /\ Ended(it_pc)

\* the consumer's next() does not return a plain None after a stage panic:
\* joining the handle panics, or the process aborts in a join
C13_Surfaced ==
    (SomeStagePanicked /\ AllThreadsEnded) => (pl_pc = "panicked" /\ it_pc = "panicked")

\* C13: after a stage has panicked, no thread stays blocked on a channel:
\* every stage thread, the iterate() thread and the consumer's next() end
\* (or the process aborts), and the panic comes out of the joins
C13_NoThreadBlockedForever ==
    /\ SomeStagePanicked ~> AllThreadsEnded
    /\ [](C13_Surfaced)

\* ReadDetect panicked on a file; the later stages ended with None and the
\* consumer's join of the handle panicked
C13_Witness ==
    /\ rd_pc = "panicked" /\ ro_pc = "done" /\ tx_pc = "done"
    /\ pl_pc = "panicked" /\ it_pc = "panicked"
    /\ delivered /= <<>>

\* no send of ReadDetect meets a dropped receiver
C14_NoClosedChannel == ~(rd_pc \in {"send", "sendNone"} /\ Ended(ro_pc))

\* with the flag set: ReadDetect starts no send (it may only complete the
\* one it had decided on before the flag was set, and each send passes one
\* message), Reorder releases nothing, and a recv of Reorder that finds the
\* channel closed leads it to send None
C14_AfterFlag ==
    early_stop =>
        /\ rd_pc' = "send" => rd_pc = "send"
        /\ rd_pc' = "sendNone" => rd_pc = "sendNone"
        /\ chan1' /= chan1 /\ Len(chan1') > Len(chan1) =>
              /\ rd_pc \in {"send", "sendNone"} /\ rd_pc' \in {"read", "end", "done"}
              /\ Len(chan1') = Len(chan1) + 1
        /\ released' = released
        /\ (ro_pc = "recv" /\ ro_pc' /= "recv") => ro_pc' = "sendNone"

\* C14: once Reorder has set early_stop, under every interleaving,
\* ReadDetect leaves its file loop after at most one further batch, Reorder
\* releases no further block, no send meets a closed channel, the recv on
\* the closed channel is taken as None, and both threads return
C14_EarlyStop ==
    /\ [][C14_AfterFlag]_vars
    /\ [](C14_NoClosedChannel)
    /\ early_stop ~> (rd_pc = "done" /\ ro_pc = "done")

\* the flag is set, ReadDetect has returned with files left unread and
\* without None, and Reorder is in recv() on the closed, empty channel
C14_Witness ==
    /\ early_stop /\ rd_pc = "done" /\ rd_idx <= Len(files)
    /\ ro_pc = "recv" /\ chan1 = <<>>

\* what the consumer can compare of a block: hash (standing for the raw
\* bytes), height and successor
Identity(block_extra) ==
    [hash |-> block_extra.hash, height |-> block_extra.height, next |-> block_extra.next]

IdentitySeq(seq) == [i \in 1..Len(seq) |-> Identity(seq[i])]

RECURSIVE FromStart(_)
\* the released blocks of height >= start_at_height, in release order
FromStart(seq) ==
    IF seq = <<>> THEN <<>>
    ELSE IF Head(seq).height >= cfg.start_at_height
         THEN <<Identity(Head(seq))>> \o FromStart(Tail(seq))
         ELSE FromStart(Tail(seq))

IsPrefix(a, b) == Len(a) <= Len(b) /\ a = SubSeq(b, 1, Len(a))

\* C15: the delivered blocks are, in order and unchanged in hash, height
\* and successor, the blocks released by Reorder of height >=
\* start_at_height: always a prefix of them, and all of them once the
\* consumer has received None
C15_FifoPreserved ==
    /\ IsPrefix(IdentitySeq(delivered), FromStart(released))
    /\ eos = 1 => IdentitySeq(delivered) = FromStart(released)

\* a finished run through ComputeTxids and Fee in which blocks below
\* start_at_height were released and at least two blocks were delivered
C15_Witness ==
    /\ it_pc = "done" /\ ~cfg.skip_prevout
    /\ cfg.start_at_height = 1
    /\ Len(delivered) >= 2 /\ Len(released) > Len(delivered)

\* the TxOut the transaction outpoint.txid declares at index outpoint.vout
Declared(outpoint) ==
    (CHOOSE tx \in AllTxs(chain) : tx.txid = outpoint.txid).output[outpoint.vout + 1]

\* every vector returned in the run gives Fee, for every input of its
\* block in order, the TxOut declared for the input's outpoint
PrevoutsOf(ret) ==
    \A h \in DOMAIN ret :
        LET ins == BlockInputs(chain[h])
            vec == outpoint_values_vec(chain[h], ret[h])
        IN  /\ Len(vec) = Len(ins) + 1
            /\ \A i \in DOMAIN ins : vec[i] = <<ins[i], Declared(ins[i])>>

\* C16: with each backend, no unwrap() on a missing prevout panics, and
\* the prevouts attached to a block hold, for every non-coinbase input, the
\* TxOut declared at that outpoint, whether the spent transaction is in an
\* earlier block or in the same block
C16_PrevoutCompleteness ==
    /\ ~mem.panic /\ PrevoutsOf(mem.ret)
    /\ ~db.panic /\ PrevoutsOf(db.ret)
    /\ ~redb.panic /\ PrevoutsOf(redb.ret)

\* the block spends an output of one of its own transactions / of an
\* earlier block
SpendsOwnOutput(block) ==
    \E i \in DOMAIN BlockInputs(block) :
        BlockInputs(block)[i].txid \in {block[t].txid : t \in DOMAIN block}

SpendsEarlierOutput(block) ==
    \E i \in DOMAIN BlockInputs(block) :
        BlockInputs(block)[i].txid \notin {block[t].txid : t \in DOMAIN block}

\* the three backends have each taken a block that spends an output of an
\* earlier block and one of its own
C16_Witness ==
    \E h \in DOMAIN chain :
        /\ SpendsOwnOutput(chain[h]) /\ SpendsEarlierOutput(chain[h])
        /\ Len(mem.ret) >= h /\ Len(db.ret) >= h /\ Len(redb.ret) >= h

\* the outpoints created in the first n blocks whose script is not
\* OP_RETURN and which no input of those blocks spends
UnspentNotOpReturn(n) ==
    LET txs == AllTxs(SubSeq(chain, 1, n))
    IN  UNION {{OutPoint(tx.txid, v - 1) :
                  v \in {w \in DOMAIN tx.output : ~is_op_return(tx.output[w].script_pubkey)}}
               : tx \in txs}
          \ UNION {SeqToSet(tx.input) : tx \in txs}

\* the table of a persistent store is exactly that set, with the TxOuts
TableIsUnspent(st) ==
    st.utxo = [o \in UnspentNotOpReturn(st.height + 1) |-> Declared(o)]

\* the TruncMap holds one entry per outpoint of that set and gives its
\* TxOut on a lookup
TruncMapIsUnspent(m) ==
    LET expected == UnspentNotOpReturn(Len(m.ret))
    IN  /\ Cardinality(DOMAIN m.trunc) + Cardinality(DOMAIN m.full) = Cardinality(expected)
        /\ \A o \in expected : TruncMap_remove(m, o).val = <<Declared(o)>>

\* C17: after the blocks of heights 0..H, each backend holds exactly the
\* outputs created in them that are not OP_RETURN and not spent
C17_StoreIsUnspentSet ==
    /\ TruncMapIsUnspent(mem)
    /\ TableIsUnspent(db)
    /\ TableIsUnspent(redb)

\* the part of C17 that holds: the in-memory and the rocksdb backend
C17_MemAndDbStores == TruncMapIsUnspent(mem) /\ TableIsUnspent(db)

\* what the redb table holds: the unspent outputs that are not provably
\* unspendable
C17_RedbStore ==
    redb.utxo = [o \in Unspent(SubSeq(chain, 1, redb.height + 1)) |-> Declared(o)]

\* the vector a persistent backend returned for height h when it
\* computed the block, all blocks before having been added to the empty
\* store in order
FirstReturn(st, h) == st.computed[h]

\* C18: fed the same blocks from an empty store, MemUtxo, DbUtxo and
\* RedbUtxo return the same prevout vector for every block, and none panics
C18_BackendsAgree ==
    /\ ~mem.panic /\ ~db.panic /\ ~redb.panic
    /\ \A h \in DOMAIN db.computed \cap DOMAIN redb.computed :
           FirstReturn(db, h) = FirstReturn(redb, h)
    /\ \A h \in DOMAIN mem.ret :
           /\ (h - 1) \in DOMAIN db.computed => mem.ret[h] = FirstReturn(db, h - 1)
           /\ (h - 1) \in DOMAIN redb.computed => mem.ret[h] = FirstReturn(redb, h - 1)

\* the three backends have returned a vector of two prevouts for the same
\* block
C18_Witness ==
    \E h \in DOMAIN mem.ret :
        /\ Len(mem.ret[h]) >= 2
        /\ (h - 1) \in DOMAIN db.computed /\ (h - 1) \in DOMAIN redb.computed

\* what a replayed block leaves alone: the table, the sidecar and the
\* recorded height
ReplayStep(st_before, st_after) ==
    (/\ Len(st_after.ret) = Len(st_before.ret) + 1
     /\ Len(st_before.ret) <= st_before.updated_up_to_height)
    => /\ st_after.utxo = st_before.utxo
       /\ st_after.prevouts = st_before.prevouts
       /\ st_after.height = st_before.height

\* every vector returned in the run is the one computed for that height
\* when the block was added
SameAsFirstRun(st) ==
    /\ ~st.panic
    /\ \A h \in DOMAIN st.ret : st.ret[h] = FirstReturn(st, h - 1)

\* C19: in a run over the same blocks with a store that has them recorded,
\* every block of height <= the recorded height gets the prevouts of the
\* first run (from the sidecar, or the empty vector for a coinbase-only
\* block) and leaves the UTXO table unmodified, so the output stream is
\* the same
C19_ReplaySameStream ==
    /\ [](SameAsFirstRun(db) /\ SameAsFirstRun(redb))
    /\ [][ReplayStep(db, db') /\ ReplayStep(redb, redb')]_vars

\* a second run with the rocksdb store has replayed a coinbase-only block
\* and a block with prevouts, both recorded by the first run
C19_Witness ==
    /\ db.runs >= 2 /\ db.updated_up_to_height >= 1
    /\ Len(db.ret) >= 2 /\ Len(chain[1]) = 1 /\ db.ret[2] /= <<>>

\* the backend utxo_manager returned is the only one of the process
OnlyOpen(st) == st.open /\ \A other \in {mem, db, redb} \ {st} : ~other.open

\* the result of the call for the configuration, and the backend built
ManagerResult ==
    /\ (manager.utxo_db /\ manager.utxo_redb) =>
          (manager.result = "OneDb" /\ ~mem.open /\ ~db.open /\ ~redb.open)
    /\ (manager.utxo_db /\ ~manager.utxo_redb) =>
          /\ manager.result \in {"Db", "Rocksdb"}
          /\ manager.result = "Db" => db.open /\ ~mem.open /\ ~redb.open
    /\ (~manager.utxo_db /\ manager.utxo_redb) =>
          /\ manager.result \in {"Redb", "Redb error"}
          /\ manager.result = "Redb" => redb.open /\ ~mem.open /\ ~db.open
    /\ (~manager.utxo_db /\ ~manager.utxo_redb /\ manager.result /= "none") =>
          (manager.result = "Mem" /\ mem.open /\ ~db.open /\ ~redb.open)

\* a call that returns an error has built no backend: no store is opened
\* or written and no MemUtxo is made
NothingCreated ==
    (manager' /= manager /\ manager'.result \in {"OneDb", "Rocksdb", "Redb error"}) =>
        /\ mem'.runs = mem.runs /\ db'.runs = db.runs /\ redb'.runs = redb.runs
        /\ db'.utxo = db.utxo /\ redb'.utxo = redb.utxo

\* C20: utxo_manager returns Error::OneDb and builds no backend when both
\* utxo_db and utxo_redb are set, builds the persistent backend of the one
\* path that is set, and the MemUtxo when none is
C20_OneDb ==
    /\ [](ManagerResult)
    /\ [][NothingCreated]_vars

\* a configuration with both paths was refused, with a rocksdb store
\* already written by an earlier run
C20_Witness ==
    /\ manager.utxo_db /\ manager.utxo_redb /\ manager.result = "OneDb"
    /\ db.runs >= 1 /\ db.height >= 0

\* the prevouts Fee attaches to the block of height h - 1 from the vector
\* the backend returned
Attached(ret, h) == outpoint_values(outpoint_values_vec(chain[h], ret[h]))

\* one entry per non-coinbase input and the entry of the null outpoint, with
\* an empty script and the sum of the values of the coinbase outputs
CoinbaseEntry(ret) ==
    \A h \in DOMAIN ret :
        /\ DOMAIN Attached(ret, h) = SeqToSet(BlockInputs(chain[h])) \cup {NullOutPoint}
        /\ Cardinality(DOMAIN Attached(ret, h)) = Len(BlockInputs(chain[h])) + 1
        /\ Attached(ret, h)[NullOutPoint] =
              [script_pubkey |-> EmptyScript,
               value |-> SumSeq([v \in DOMAIN chain[h][1].output |->
                                    chain[h][1].output[v].value])]

\* C21: every block Fee forwards carries, besides one prevout per
\* non-coinbase input, a prevout for the null outpoint whose script is empty
\* and whose value is the sum of the values of the coinbase outputs
C21_CoinbaseSyntheticPrevout ==
    CoinbaseEntry(mem.ret) /\ CoinbaseEntry(db.ret) /\ CoinbaseEntry(redb.ret)

\* the three backends have returned the prevouts of a block with inputs
\* whose coinbase has two outputs and collects a fee
C21_Witness ==
    \E h \in DOMAIN chain :
        /\ Len(mem.ret) >= h /\ Len(db.ret) >= h /\ Len(redb.ret) >= h
        /\ BlockInputs(chain[h]) /= <<>>
        /\ Len(chain[h][1].output) = 2
        /\ Attached(mem.ret, h)[NullOutPoint].value > Subsidy

\* the fee of the block in unbounded integers: the values of the outputs
\* its inputs spend less the values of its outputs, the coinbase left out
TrueFee(h) ==
    SumSeq([i \in DOMAIN BlockInputs(chain[h]) |-> Declared(BlockInputs(chain[h])[i]).value])
      - SumSeq([t \in 1..(Len(chain[h]) - 1) |->
                  SumSeq([v \in DOMAIN chain[h][t + 1].output |->
                             chain[h][t + 1].output[v].value])])

\* the fee of every block of the run is computed within u64 and is the
\* non-negative fee of the block
FeeWithinU64(ret) ==
    \A h \in DOMAIN ret :
        LET f == fee(chain[h], Attached(ret, h))
        IN  ~f.panic /\ ~f.overflow /\ f.total = TrueFee(h) /\ TrueFee(h) >= 0

\* C22: for every block delivered with prevouts, fee() finds every input's
\* prevout, no addition and no subtraction leaves the range of u64, and the
\* result is the non-negative fee of the block
C22_FeeNonNegative ==
    FeeWithinU64(mem.ret) /\ FeeWithinU64(db.ret) /\ FeeWithinU64(redb.ret)

\* the result of fee(), where the build goes on with wrapped values, is
\* the non-negative fee of the block, and the subtraction does not wrap
\* unless an addition did
FeeValue(ret) ==
    \A h \in DOMAIN ret :
        LET f == fee(chain[h], Attached(ret, h))
            visitor == TxFeeVisitor(chain[h], Attached(ret, h))
        IN  /\ ~f.panic /\ TrueFee(h) >= 0 /\ f.total = TrueFee(h)
            /\ ~visitor.input_total.overflow => ~f.overflow

\* C22, what holds: the fee is non-negative and the wrapped result equals
\* it; only the sum of the prevout values can leave the range of u64
C22_FeeValue ==
    FeeValue(mem.ret) /\ FeeValue(db.ret) /\ FeeValue(redb.ret)

RECURSIVE Halved(_, _)
\* x halved n times with integer halving
Halved(x, n) ==
    IF n = 0 \/ x = Sat(0, 0) THEN x
    ELSE CHOOSE r \in {Halved(y, n - 1) : y \in {Shr1(x)}} : TRUE

\* C24: for every height h, base_reward is defined and is 5,000,000,000
\* satoshi halved floor(h / 210,000) times
C24_BaseReward ==
    reward.pc = "done" =>
        /\ ~reward.panic
        /\ reward.value = Halved(Sat(50000, 0), reward.height \div 210000)

\* C24, what holds: below height 64 * 210,000 = 13,440,000 base_reward is
\* defined and is the halved amount, with the values stated for the first
\* four periods
C24_BelowHeight13440000 ==
    (reward.pc = "done" /\ reward.height < 64 * 210000) =>
        /\ ~reward.panic
        /\ reward.value = Halved(Sat(50000, 0), reward.height \div 210000)
        /\ (reward.height < 210000) => reward.value = Sat(50000, 0)
        /\ (reward.height >= 210000 /\ reward.height < 420000) => reward.value = Sat(25000, 0)
        /\ (reward.height >= 420000 /\ reward.height < 630000) => reward.value = Sat(12500, 0)
        /\ (reward.height >= 630000 /\ reward.height < 840000) => reward.value = Sat(6250, 0)

\* C23: for every BlockExtra and each of the versions 0 and 1, decoding the
\* encoding gives a BlockExtra equal in every field, and uses up the bytes
C23_RoundTrip ==
    codec.pc = "decoded" => (codec.ok /\ codec.value = codec.be)

\* a BlockExtra of version 0 with transactions, two prevouts and a next of
\* three hashes has been decoded from its encoding
C23_Witness ==
    /\ codec.pc = "decoded" /\ codec.ok
    /\ codec.be.version = 0
    /\ Len(codec.be.block_bytes) > 2
    /\ Cardinality(DOMAIN codec.be.outpoint_values) = 2
    /\ Len(codec.be.next) = 3

\* C25: every delivered block, with skip_prevout and without, carries one
\* txid per transaction of the block, the i-th being the txid of the i-th
\* transaction
C25_TxidsOfDelivered ==
    \A k \in 1..Len(delivered) :
        /\ Len(delivered[k].txids) = Len(block_txdata(delivered[k].hash))
        /\ delivered[k].block_total_txs = Len(block_txdata(delivered[k].hash))
        /\ \A i \in 1..Len(delivered[k].txids) :
               delivered[k].txids[i] = Txid(block_txdata(delivered[k].hash)[i])

\* with skip_prevout, a block of more than one transaction has been
\* delivered from start_at_height = 1 on
C25_Witness ==
    /\ cfg.skip_prevout /\ cfg.start_at_height = 1
    /\ \E k \in 1..Len(delivered) : Len(delivered[k].txids) > 1

\* the block file holds the magic, a length field and a block of that length
\* whose bytes are [start, end)
RecordAt(buffer, start, end) ==
    /\ MagicLen + SizeLen <= start /\ start <= end /\ end <= Len(buffer)
    /\ SubSeq(buffer, start - SizeLen - MagicLen + 1, start - SizeLen) = Magic
    /\ buffer[start] = end - start
    /\ BlockParse(SubSeq(buffer, start + 1, end)).ok
    /\ BlockParse(SubSeq(buffer, start + 1, end)).consumed = end - start

\* C26: every accepted block has start right after the length field that
\* follows its magic, end - start equal to the declared length and the
\* bytes [start, end) being that block, also after rejected magic hits
C26_Offsets ==
    \A i \in 1..Len(scan.detected_blocks) :
        LET d == scan.detected_blocks[i]
        IN  /\ RecordAt(scan.buffer, d.start, d.end)
            /\ d.hash = HeaderHash(scan.buffer[d.start + 1])

\* the offsets are those of the block when no magic hit of the file has
\* been rejected
C26_WithoutRejectedHit ==
    scan.rejected = 0 =>
        \A i \in 1..Len(scan.detected_blocks) :
            /\ RecordAt(scan.buffer, scan.detected_blocks[i].start, scan.detected_blocks[i].end)
            /\ scan.detected_blocks[i].hash =
                   HeaderHash(scan.buffer[scan.detected_blocks[i].start + 1])

\* C27: no magic hit is fatal to the scan, whatever follows it, and the
\* scan of the file ends with every well-formed block that starts after the
\* accepted ones detected
C27_ParseFailureNotFatal ==
    /\ scan.pc /= "panicked"
    /\ scan.pc = "detected" =>
          \A start, end \in 1..Len(scan.buffer) :
              (/\ RecordAt(scan.buffer, start, end)
               /\ \A i \in 1..Len(scan.detected_blocks) :
                      scan.detected_blocks[i].end <= start - SizeLen - MagicLen)
              => \E i \in 1..Len(scan.detected_blocks) :
                     scan.detected_blocks[i].hash = HeaderHash(scan.buffer[start + 1])

\* the scan fails only at a magic with no length field after it
C27_FatalOnlyWithoutLength ==
    scan.pc = "panicked" =>
        /\ Len(scan.buffer) >= MagicLen
        /\ \E p \in 1..Len(scan.buffer) :
               /\ p + MagicLen - 1 <= Len(scan.buffer)
               /\ SubSeq(scan.buffer, p, p + MagicLen - 1) = Magic
               /\ Len(scan.buffer) - (p + MagicLen - 1) < SizeLen

RECURSIVE FilterByHash(_, _)
\* the filter of ReadDetect with a set keyed by the whole hash
FilterByHash(detected, s) ==
    IF detected = <<>> THEN <<(<<>>), s>>
    ELSE CHOOSE out \in
           { <<(IF Head(detected) \in s THEN <<>> ELSE <<Head(detected)>>) \o rest[1],
               rest[2]>> :
             rest \in {FilterByHash(Tail(detected), s \cup {Head(detected)})} } : TRUE

RECURSIVE RefFilesByHash(_, _, _, _, _)
\* RefFiles with that filter
RefFilesByHash(i, s, st, h, out) ==
    IF i > Len(files) THEN out
    ELSE LET r == FilterByHash(files[i], s)
             batch == [k \in 1..Len(r[1]) |-> into_fs_block(r[1][k])]
             d == RefDrain(ForRawBlocks([blocks |-> st.blocks, follows |-> st.follows,
                                         next |-> st.next, batch |-> batch],
                                        cfg.max_reorg, h), h, out)
         IN  IF d.stopped THEN d.out
             ELSE RefFilesByHash(i + 1, r[2], d.st, d.h, d.out)

\* the stream of the same files when no two fingerprints are equal
RefStreamByHash ==
    SelectSeq(RefFilesByHash(1, {}, [blocks |-> EmptyMap, follows |-> EmptyMap,
                                     next |-> Genesis], 0, <<>>),
              LAMBDA e : e[1] >= cfg.start_at_height)

\* C28: with two distinct blocks whose hashes share the first 12 bytes, the
\* stream delivered is the one delivered when the fingerprints differ: no
\* block is lost and the run does not end early
C28_CollisionHarmless ==
    it_pc = "done" =>
        [i \in 1..Len(delivered) |-> <<delivered[i].height, delivered[i].hash>>]
            = RefStreamByHash

\* the stream is that of the files with the second of two blocks of equal
\* fingerprint left out
C28_StreamOfFilteredFiles ==
    it_pc = "done" =>
        [i \in 1..Len(delivered) |-> <<delivered[i].height, delivered[i].hash>>]
            = RefStream

\* block k of file i is in no earlier file and not earlier in file i
FirstOccurrence(i, k) ==
    /\ \A j \in 1..(i - 1) : \A m \in 1..Len(files[j]) : files[j][m] /= files[i][k]
    /\ \A m \in 1..(k - 1) : files[i][m] /= files[i][k]

RECURSIVE NotSeenBefore(_, _)
\* the blocks of file i from position k on that are first occurrences, in
\* the order of the file
NotSeenBefore(i, k) ==
    IF k > Len(files[i]) THEN <<>>
    ELSE (IF FirstOccurrence(i, k) THEN <<into_fs_block(files[i][k])>> ELSE <<>>)
           \o NotSeenBefore(i, k + 1)

\* the batches ReadDetect has sent so far
Batches == SelectSeq(rd_sent, LAMBDA msg : msg /= None)

\* the i-th batch sent is that of the i-th file in path order
BatchesInOrder ==
    /\ Len(Batches) <= Len(files)
    /\ \A i \in 1..Len(Batches) : Batches[i] = Some(NotSeenBefore(i, 1))

\* a batch is in the rendezvous channel only while Reorder is taking it, and
\* at most one file scanned has its batch neither sent nor dropped
AtMostOneAhead ==
    /\ Len(chan1) <= 1
    /\ chan1 /= <<>> => ro_pc = "recv"
    /\ (rd_idx - 1) - Len(Batches) <= 1

\* C29 as stated: one batch for every block file, in path order, each with
\* the blocks of the file not seen before in scan order, and at most one
\* scanned batch that Reorder has not received
C29_OneBatchPerFile ==
    /\ BatchesInOrder
    /\ rd_pc = "done" => Len(Batches) = Len(files)
    /\ AtMostOneAhead

\* C29: the batches sent are those of the first files in path order, one
\* per file and none left out, each with the blocks of the file not seen
\* before in scan order; every file has its batch when ReadDetect gets to
\* send the final None; at most one scanned batch is not yet received
C29_OneBatchPerFileUntilStopped ==
    /\ BatchesInOrder
    /\ (rd_pc = "sendNone" \/ \E i \in 1..Len(rd_sent) : rd_sent[i] = None)
          => Len(Batches) = Len(files)
    /\ AtMostOneAhead

\* three files have been sent and the final None after them, the batch of
\* one file without a block written in an earlier file
C29_Witness ==
    /\ Len(files) = 3 /\ Len(rd_sent) = 4 /\ rd_sent[4] = None
    /\ \E i \in 1..3 : Len(rd_sent[i][1]) < Len(files[i])

\* the map of Reorder holds at most one block more than the limit
DagWithinLimit ==
    Cardinality(DOMAIN blocks) <= max_block_to_reorder \div dag_scale + 1

\* C30: the DAG never holds more than 10,001 blocks (here the limit of the
\* model and one); once Reorder has failed on a block that arrived with the
\* DAG above the limit, the block is not inserted and no block is released
C30_DagLimit ==
    /\ []DagWithinLimit
    /\ [][ro_pc = "panicked" => (blocks' = blocks /\ released' = released)]_vars
    /\ [][(ro_pc /= "panicked" /\ ro_pc' = "panicked")
            => /\ released' = released
               /\ ro_batch' /= <<>>
               /\ \A i \in 1..Len(ro_batch') : ro_batch'[i].hash \notin DOMAIN blocks']_vars

\* Reorder has failed with the DAG one above the limit and the block that
\* arrived still in the batch
C30_Witness ==
    /\ ro_pc = "panicked"
    /\ Cardinality(DOMAIN blocks) = max_block_to_reorder \div dag_scale + 1
    /\ ro_batch /= <<>>
    /\ \A i \in 1..Len(ro_batch) : ro_batch[i].hash \notin DOMAIN blocks

\* the blocks that have arrived and extend the block with this hash
ArrivedChildren(hash) ==
    {dag.arrived[i] : i \in {j \in 1..Len(dag.arrived) : prevOf[dag.arrived[j]] = hash}}

\* C31: whatever the order in which parents and children arrive, the next
\* list of every block in the map holds the arrived blocks that extend it,
\* each once, and every hash in it is a key of the map
C31_NextListsChildren ==
    dag.pc /= "idle" =>
        \A hash \in DOMAIN dag.blocks :
            LET nexts == dag.blocks[hash].next
            IN  /\ {nexts[i] : i \in 1..Len(nexts)} = ArrivedChildren(hash)
                /\ \A i, j \in 1..Len(nexts) : i /= j => nexts[i] /= nexts[j]
                /\ \A i \in 1..Len(nexts) : nexts[i] \in DOMAIN dag.blocks

\* a block holds two children in its next list, one that arrived before it
\* and one that arrived after it
C31_Witness ==
    /\ dag.pc = "run"
    /\ \E i, j, k \in 1..Len(dag.arrived) :
          /\ i < j /\ j < k
          /\ prevOf[dag.arrived[i]] = dag.arrived[j]
          /\ prevOf[dag.arrived[k]] = dag.arrived[j]
          /\ dag.arrived[j] \in DOMAIN dag.blocks
          /\ Len(dag.blocks[dag.arrived[j]].next) = 2

\* the map without the released block and without its parent, the child
\* index without the entry of the released block, everything else as before
ReleaseFrame(be) ==
    /\ be.hash \in DOMAIN dag.blocks
    /\ DOMAIN dag'.blocks = DOMAIN dag.blocks \ {be.hash, prevOf[be.hash]}
    /\ \A hash \in DOMAIN dag'.blocks : dag'.blocks[hash] = dag.blocks[hash]
    /\ DOMAIN dag'.follows = DOMAIN dag.follows \ {be.hash}
    /\ \A hash \in DOMAIN dag'.follows : dag'.follows[hash] = dag.follows[hash]

\* C32: a release takes from the map the released block and its parent and
\* from the child index the entry of the released block, and nothing else;
\* a block that has been sent is not in the map afterwards
C32_ReleaseFrame ==
    /\ [][(dag.pc = "run" /\ Len(dag'.sent) > Len(dag.sent))
            => ReleaseFrame(dag'.sent[Len(dag'.sent)])]_vars
    /\ [](dag.pc /= "idle" =>
            \A i \in 1..Len(dag.sent) : dag.sent[i].hash \notin DOMAIN dag.blocks)

\* a block has been released at a fork while the block of the other branch
\* stays in the map
C32_Witness ==
    /\ dag.pc = "run" /\ dag.sent /= <<>>
    /\ \E hash \in DOMAIN dag.blocks :
          /\ prevOf[hash] = prevOf[dag.sent[Len(dag.sent)].hash]
          /\ hash /= dag.sent[Len(dag.sent)].hash

\* ---- C33
RECURSIVE HasChain(_, _, _)
\* a chain of n blocks of the map that starts at hash, each one listed in
\* the next of the one before (the last one only has to be listed)
HasChain(b, hash, n) ==
    IF n <= 1 THEN TRUE
    ELSE /\ hash \in DOMAIN b
         /\ \E i \in 1..Len(b[hash].next) : HasChain(b, b[hash].next[i], n - 1)

\* the stream of the release loop run over the arrived blocks as one batch
OooReplay ==
    RefDrain(ForRawBlocks([blocks |-> EmptyMap, follows |-> EmptyMap, next |-> Genesis,
                           batch |-> [k \in 1..Len(dag.arrived) |->
                                        into_fs_block(dag.arrived[k])]],
                          cfg.max_reorg, 0), 0, <<>>).out

OooSentStream == [k \in 1..Len(dag.sent) |-> <<dag.sent[k].height, dag.sent[k].hash>>]

\* C33: the successor stamped into a released block is the first entry of
\* its next list from which a chain of max_reorg blocks descends
FirstChildWins ==
    (dag.pc = "run" /\ Len(dag'.sent) = Len(dag.sent) + 1) =>
        LET be == dag'.sent[Len(dag'.sent)]
            nexts == dag.blocks[be.hash].next
        IN  /\ Len(be.next) = 1
            /\ \E i \in 1..Len(nexts) :
                 /\ nexts[i] = be.next[1]
                 /\ HasChain(dag.blocks, nexts[i], cfg.max_reorg)
                 /\ \A j \in 1..(i - 1) : ~HasChain(dag.blocks, nexts[j], cfg.max_reorg)

\* C33: at a fork the first child, in the order of the next list, with a
\* descendant chain of length max_reorg is stamped as the successor, and
\* the stream sent is the one function of the sequence of arrivals
C33_FirstChildWins ==
    /\ [][FirstChildWins]_vars
    /\ [](dag.pc = "run" =>
            /\ Len(dag.sent) <= Len(OooReplay)
            /\ OooSentStream = SubSeq(OooReplay, 1, Len(dag.sent)))

\* a block with two arrived children is released and the child that came
\* second is the one stamped
C33_Witness ==
    /\ dag.pc = "run"
    /\ \E k \in 1..Len(dag.sent) :
         LET be == dag.sent[k]
         IN  /\ Cardinality(ArrivedChildren(be.hash)) >= 2
             /\ \E i, j \in 1..Len(dag.arrived) :
                  /\ i < j
                  /\ prevOf[dag.arrived[i]] = be.hash
                  /\ dag.arrived[j] = be.next[1]

\* ---- C34
\* ComputeTxids takes from its channel a block below start_at_height while
\* skip_prevout is set
TxidsTakesEarlyBlock ==
    /\ cfg.skip_prevout
    /\ tx_pc = "recv" /\ tx_pc' /= "panicked"
    /\ chan2 /= <<>> /\ chan2' = Tail(chan2)
    /\ Head(chan2) /= None
    /\ Head(chan2)[1].height < cfg.start_at_height

\* C34 as stated: with skip_prevout, a block below start_at_height is
\* forwarded downstream unchanged, its txids not computed
C34_ForwardsUnchanged ==
    [][TxidsTakesEarlyBlock => (tx_pending' = <<Head(chan2)[1]>> /\ tx_pc' = "send")]_vars

\* C34: with skip_prevout, a block below start_at_height is not sent
\* downstream at all and its txids are not computed: ComputeTxids goes back
\* to recv, and no such block is in its hands, in the channel to the
\* consumer or among the delivered ones
C34_DropsEarlyBlock ==
    /\ [][TxidsTakesEarlyBlock =>
            (tx_pending' = <<>> /\ tx_pc' = "recv" /\ chan3' = chan3 /\ chanOut' = chanOut)]_vars
    /\ [](cfg.skip_prevout =>
            /\ \A k \in 1..Len(tx_pending) : tx_pending[k].height >= cfg.start_at_height
            /\ \A k \in 1..Len(chanOut) :
                 chanOut[k] /= None => chanOut[k][1].height >= cfg.start_at_height
            /\ \A k \in 1..Len(delivered) : delivered[k].height >= cfg.start_at_height)

\* with skip_prevout, Reorder has released block 0, below start_at_height,
\* and a later block has gone through ComputeTxids to the consumer
C34_Witness ==
    /\ cfg.skip_prevout /\ cfg.start_at_height >= 1
    /\ released /= <<>> /\ released[1].height = 0
    /\ delivered /= <<>> /\ delivered[1].height = cfg.start_at_height

\* ---- C35
\* the vector returned for the block of height h - 1 has one TxOut per input
\* of the transactions after the coinbase, the i-th one being the TxOut
\* declared for the i-th input in transaction order, then input order
OnePerInput(ret) ==
    \A h \in DOMAIN ret :
        /\ Len(ret[h]) = SumSeq([t \in 1..(Len(chain[h]) - 1) |-> Len(chain[h][t + 1].input)])
        /\ \A t \in 2..Len(chain[h]) : \A k \in DOMAIN chain[h][t].input :
               ret[h][SumSeq([u \in 1..(t - 2) |-> Len(chain[h][u + 1].input)]) + k]
                   = Declared(chain[h][t].input[k])

\* C35: for every block, add_outputs_get_inputs of each backend returns
\* exactly one TxOut per non-coinbase input, in the order the inputs are
\* visited, so that Fee neither runs out of prevouts nor leaves one unused
C35_OnePrevoutPerInput ==
    /\ ~mem.panic /\ OnePerInput(mem.ret)
    /\ ~db.panic /\ OnePerInput(db.ret)
    /\ ~redb.panic /\ OnePerInput(redb.ret)

\* each backend has returned the vector of a block with two transactions
\* after the coinbase and inputs whose TxOuts differ
C35_Witness ==
    \E h \in DOMAIN chain :
        /\ Len(chain[h]) = 3
        /\ \E i, j \in DOMAIN BlockInputs(chain[h]) :
              i < j /\ Declared(BlockInputs(chain[h])[i]) /= Declared(BlockInputs(chain[h])[j])
        /\ Len(mem.ret) >= h /\ Len(db.ret) >= h /\ Len(redb.ret) >= h

\* ---- C36
\* MemUtxo::stat, DbUtxo::stat and RedbUtxo::stat: the numbers reported
MemUtxo_stat(m) ==
    [utxo_size |-> Cardinality(DOMAIN m.trunc), collision_size |-> Cardinality(DOMAIN m.full),
     unspendable |-> m.unspendable]

DbUtxo_stat(st) ==
    [updated_up_to_height |-> st.updated_up_to_height, inserted_outputs |-> st.inserted_outputs]

RedbUtxo_stat(st) ==
    [updated_up_to_height |-> st.updated_up_to_height, inserted_outputs |-> st.inserted_outputs]

\* the OP_RETURN outputs of the blocks chain[from..to]
OpReturnOutputs(from, to) ==
    SumSeq([k \in 1..(to - from + 1) |->
              Cardinality({i \in DOMAIN BlockOutputs(chain[from + k - 1]) :
                  is_op_return(BlockOutputs(chain[from + k - 1])[i].tx_out.script_pubkey)})])

\* the OP_RETURN outputs of the blocks the backend of this run has computed
MemSeen == OpReturnOutputs(1, Len(mem.ret))
StoreSeen(st) == OpReturnOutputs(st.updated_up_to_height + 2, Len(st.ret))

\* no entry of the store has an OP_RETURN script
MemHasNoOpReturn ==
    /\ \A k \in DOMAIN mem.trunc : ~is_op_return(ScriptBufFrom(mem.trunc[k][1]))
    /\ \A o \in DOMAIN mem.full : ~is_op_return(mem.full[o].script_pubkey)

StoreHasNoOpReturn(st) == \A o \in DOMAIN st.utxo : ~is_op_return(st.utxo[o].script_pubkey)

\* the statistic of the backend counts the OP_RETURN outputs
Counted(stat, n) == "unspendable" \in DOMAIN stat /\ stat.unspendable = n

\* C36 as stated: in every backend an OP_RETURN output is never inserted
\* into the store and each one is counted in the statistic of the backend
C36_SkippedAndCounted ==
    /\ MemHasNoOpReturn /\ StoreHasNoOpReturn(db) /\ StoreHasNoOpReturn(redb)
    /\ (mem.open /\ MemSeen > 0) => Counted(MemUtxo_stat(mem), MemSeen)
    /\ (db.open /\ StoreSeen(db) > 0) => Counted(DbUtxo_stat(db), StoreSeen(db))
    /\ (redb.open /\ StoreSeen(redb) > 0) => Counted(RedbUtxo_stat(redb), StoreSeen(redb))

\* C36, the part that holds: no backend inserts an OP_RETURN output, and
\* MemUtxo counts each one it has skipped
C36_SkippedCountedInMem ==
    /\ MemHasNoOpReturn /\ StoreHasNoOpReturn(db) /\ StoreHasNoOpReturn(redb)
    /\ mem.open => Counted(MemUtxo_stat(mem), MemSeen)

\* the persistent backends report no number that follows the OP_RETURN
\* outputs: inserted_outputs counts the outputs put into the store
C36_StoresCountInserted ==
    /\ db.open => DbUtxo_stat(db).inserted_outputs =
                     SumSeq([k \in 1..(Len(db.ret) - db.updated_up_to_height - 1) |->
                        Cardinality({o \in DOMAIN block_outputs_of(BlockOutputs(
                                        chain[db.updated_up_to_height + 1 + k]), "db") :
                                     o \notin SeqToSet(BlockInputs(
                                        chain[db.updated_up_to_height + 1 + k]))})])

\* ---- C37
\* Reorder takes a block whose bytes cannot all be read from the file
ReadFails ==
    /\ scan.pc = "detected" /\ scan.loaded < Len(scan.detected_blocks)
    /\ scan.detected_blocks[scan.loaded + 1].end > Len(scan.file)
    /\ scan'.file = scan.file /\ scan' /= scan

\* the block_hash of every emitted block is the hash of the header in its
\* bytes
EmittedHashOfHeader ==
    \A k \in DOMAIN scan.emitted :
        /\ scan.emitted[k].block_bytes /= <<>>
        /\ scan.emitted[k].block_hash = HeaderHash(scan.emitted[k].block_bytes[1])

\* C37 as stated: a failure to read the payload of a released block is
\* fatal, and so is a payload whose header does not hash to the recorded
\* hash: every emitted block_hash is the hash of the header in the bytes
C37_LoadChecked ==
    /\ [][ReadFails => (scan'.pc = "panicked" /\ scan'.emitted = scan.emitted)]_vars
    /\ []EmittedHashOfHeader

\* C37, the part that holds: a failure to read the payload is fatal, and
\* the block_hash of an emitted block is the hash the scan recorded
C37_ReadFailureFatal ==
    /\ [][ReadFails => (scan'.pc = "panicked" /\ scan'.emitted = scan.emitted)]_vars
    /\ [](\A k \in DOMAIN scan.emitted :
            scan.emitted[k].block_hash = scan.detected_blocks[k].hash)

\* ---- C38
\* the outpoints in the map with the fingerprint of this one
SameFingerprint(outpoint) ==
    {o \in DOMAIN mem.inserted : hash64(o) = hash64(outpoint)}

\* C38: whatever outpoints have been inserted and removed, remove has
\* returned the TxOut, value and script, inserted for the outpoint, and
\* would return it for every outpoint in the map, also for outpoints with
\* the fingerprint of other outpoints in the map
C38_ExactMap ==
    mem.open =>
        /\ mem.removed /= <<>> => mem.removed[2] = <<TruncTxOut(mem.removed[1])>>
        /\ \A o \in DOMAIN mem.inserted :
               TruncMap_remove(mem, o).val = <<mem.inserted[o]>>
        /\ Cardinality(DOMAIN mem.trunc) + Cardinality(DOMAIN mem.full)
               = Cardinality(DOMAIN mem.inserted)

\* an outpoint has been removed while two other outpoints of its
\* fingerprint were in the map, one of them with a script kept as a hash
C38_Witness ==
    /\ mem.open /\ mem.removed /= <<>>
    /\ mem.removed[1] \notin DOMAIN mem.inserted
    /\ Cardinality(SameFingerprint(mem.removed[1])) >= 2
    /\ hash64(mem.removed[1]) \notin DOMAIN mem.trunc
    /\ \E o \in SameFingerprint(mem.removed[1]) :
           mem.inserted[o].script_pubkey.class /= "other"

\* ---- C39
\* C39 as stated: with every max_reorg from 0 on, the release loop takes
\* the blocks without failing, and with max_reorg = 0 the candidate is
\* released as soon as it is in the map, whatever follows it
C39_EveryMaxReorg ==
    /\ dag.pc /= "panicked"
    /\ (cfg.max_reorg = 0 /\ dag.pc = "run" /\ dag.next \in DOMAIN dag.blocks) =>
           remove(dag.blocks, cfg.max_reorg, dag.next).found

\* C39, the part that holds: with max_reorg of 1 or more blocks.remove does
\* not fail; with max_reorg = 0 it fails on its first call, after the
\* first block has been added, and no block is released
C39_PositiveMaxReorg ==
    /\ cfg.max_reorg >= 1 => dag.pc /= "panicked"
    /\ cfg.max_reorg = 0 => (dag.sent = <<>> /\ Len(dag.arrived) <= 1)
    /\ (cfg.max_reorg = 0 /\ dag.arrived /= <<>> /\ dag.pc = "run") =>
           remove(dag.blocks, cfg.max_reorg, dag.next).panic

\* ---- C40
\* every stage thread has returned or panicked, or the process has aborted
StagesEnded ==
    \/ aborted
    \/ /\ Ended(rd_pc) /\ Ended(ro_pc) /\ Ended(tx_pc)
       /\ fee_pc \in {"done", "panicked", "absent"}

\* C40: once the consumer has dropped its end of the output channel before
\* the end of the stream, every stage thread terminates: none stays blocked
\* on a send to, or a receive from, its neighbour
C40_StagesTerminate == (it_pc = "dropped") ~> StagesEnded

\* the consumer dropped the iterator after a block; the failed send ended
\* the last stage and the failure went up to ReadDetect
C40_Witness ==
    /\ it_pc = "dropped" /\ delivered /= <<>>
    /\ ~aborted
    /\ rd_pc = "panicked" /\ ro_pc = "panicked" /\ tx_pc = "panicked"
====
